---- MODULE Spec2Model ----
(***************************************************************************)
(* Retrieval core of the e-commerce search demo: corpus loading, the       *)
(* inverted index (create_inverted_index), the three ranking strategies    *)
(* (rank_query_tf_idf, rank_query_tf_idf_cosine, rank_query_bm25), the      *)
(* wrapper search_in_corpus and the SearchEngine facade with its module    *)
(* globals.                                                                *)
(*                                                                         *)
(* Conventions.                                                            *)
(*  - A Python str is a sequence of one-character strings; a token/term is *)
(*    a str, so it is a sequence of characters too.                        *)
(*  - An insertion-ordered dict whose order is observable (the corpus, the *)
(*    score accumulators) is a sequence of entries; a dict only read by    *)
(*    key (the index, doc_id_map) is a function.                           *)
(*  - None is <<>> and a present value x is <<x>> (None / Some) wherever a *)
(*    Python name may hold None.                                           *)
(*  - A float is a fixed-point integer with Scale units per 1.0.           *)
(*  - A call returns [raised, value]: raised is TRUE when the Python code  *)
(*    would leave by an exception.                                         *)
(*  - Threads run a call in steps: pc is each thread's position, frame its  *)
(*    locals. loads counts the executions of load_corpus and builds those  *)
(*    of create_inverted_index by initialize.                              *)
(*  - A document is a record of its attributes. A token attribute that is  *)
(*    None is named in none_fields, one that the object does not have in   *)
(*    missing_fields; the record then holds <<>> in its place.             *)
(*  - analytics_data is the AnalyticsData object of web_app, a record of   *)
(*    its dictionaries; a dictionary is a function on its keys, and a text *)
(*    that is only stored or compared (a pid, a user agent) is a string.   *)
(***************************************************************************)
EXTENDS Integers, Sequences, FiniteSets, TLC

VARIABLES LOADED, CORPUS, INVERTED_INDEX, DOC_ID_MAP, PID_TO_DOCID,
          hashOrder, call, ret, repeated,
          pc, frame, loads, builds,
          analytics_data

vars == <<LOADED, CORPUS, INVERTED_INDEX, DOC_ID_MAP, PID_TO_DOCID,
          hashOrder, call, ret, repeated, pc, frame, loads, builds,
          analytics_data>>

\* the variables of the search engine, which the analytics never touch
engineVars == <<LOADED, CORPUS, INVERTED_INDEX, DOC_ID_MAP, PID_TO_DOCID,
                hashOrder, call, ret, repeated, pc, frame, loads, builds>>

\* the position and the locals of every thread
threadVars == <<pc, frame>>

(***************************************************************************)
(* Bounds of the model.                                                    *)
(***************************************************************************)
MaxDocs == 2
MaxTitleLen == 1
MaxDescLen == 1
MaxQueryLen == 3
MaxTopK == 2
MaxThreads == 2
MaxSessions == 2
MaxQueries == 2
MaxClicks == 2
MaxViews == 1
Scale == 100

(***************************************************************************)
(* Input alphabets.                                                        *)
(***************************************************************************)
\* characters a query string is made of: a lower-case letter, an upper-case
\* letter and a blank
QueryChars == {"r", "S", " "}
\* the tokens clean_line can produce for the modelled documents
DocTerms == {<<"r">>, <<"s">>}
\* product ids of the rows of the data file, in file order
PidOfRow == <<"P1", "P2", "P3", "P4">>

None == <<>>
Some(x) == <<x>>
IsNone(o) == o = <<>>
Val(o) == o[1]

Min(a, b) == IF a <= b THEN a ELSE b

BoundedSeq(S, n) == UNION {[1..k -> S] : k \in 0..n}

Range(s) == {s[i] : i \in 1..Len(s)}

RECURSIVE SumSeq(_)
SumSeq(s) == IF s = <<>> THEN 0 ELSE s[1] + SumSeq(Tail(s))

(***************************************************************************)
(* str methods used by the code.                                           *)
(***************************************************************************)
IsSpace(c) == c = " "

LowerChar(c) == IF c = "S" THEN "s" ELSE IF c = "R" THEN "r" ELSE c

\* str.lower()
Lower(s) == [i \in 1..Len(s) |-> LowerChar(s[i])]

\* str.strip()
RECURSIVE LStrip(_)
LStrip(s) == IF s # <<>> /\ IsSpace(s[1]) THEN LStrip(Tail(s)) ELSE s

RECURSIVE RStrip(_)
RStrip(s) ==
    IF s # <<>> /\ IsSpace(s[Len(s)]) THEN RStrip(SubSeq(s, 1, Len(s) - 1)) ELSE s

Strip(s) == RStrip(LStrip(s))

\* str.split() with no separator: the maximal runs of non-blank characters
RECURSIVE SplitFrom(_, _, _)
SplitFrom(s, cur, acc) ==
    IF s = <<>>
    THEN IF cur = <<>> THEN acc ELSE Append(acc, cur)
    ELSE IF IsSpace(s[1])
         THEN SplitFrom(Tail(s), <<>>, IF cur = <<>> THEN acc ELSE Append(acc, cur))
         ELSE SplitFrom(Tail(s), Append(cur, s[1]), acc)

Split(s) == SplitFrom(s, <<>>, <<>>)

\* query.lower().split()
QueryTerms(query) == Split(Lower(query))

(***************************************************************************)
(* Documents and the corpus.                                               *)
(***************************************************************************)
\* one row of the data file after clean_line: the Document built from it
Document(pid, title_tokens, desc_tokens) ==
    [pid |-> pid,
     title |-> <<"title", title_tokens>>,
     description |-> <<"description", desc_tokens>>,
     selling_price |-> <<"selling_price", pid>>,
     discount |-> <<"discount", pid>>,
     average_rating |-> <<"average_rating", pid>>,
     url |-> <<"url", pid>>,
     title_tokens |-> title_tokens,
     desc_tokens |-> desc_tokens,
     none_fields |-> {},
     missing_fields |-> {}]

\* the (title_tokens, desc_tokens) pairs a row may carry
Contents == BoundedSeq(DocTerms, MaxTitleLen) \X BoundedSeq(DocTerms, MaxDescLen)

\* the files load_corpus may read: up to MaxDocs rows with distinct pids
Files == UNION {[1..n -> Contents] : n \in 0..MaxDocs}

\* load_corpus: corpus[doc.pid] = doc for every row, in row order
load_corpus(file) ==
    [i \in 1..Len(file) |-> Document(PidOfRow[i], file[i][1], file[i][2])]

\* corpus.keys() in insertion order
Keys(corpus) == [i \in 1..Len(corpus) |-> corpus[i].pid]

\* corpus[pid]
DocOf(corpus, pid) ==
    LET i == CHOOSE j \in 1..Len(corpus) : corpus[j].pid = pid IN corpus[i]

(***************************************************************************)
(* create_inverted_index                                                   *)
(***************************************************************************)
\* mutant: the description tokens put before the title tokens
MutAllTokens(doc) == doc.desc_tokens \o doc.title_tokens

\* getattr(doc, field, []) or []: the list, or [] for a missing or None field
TokensOrEmpty(doc, field) ==
    IF field \in doc.none_fields \cup doc.missing_fields THEN <<>> ELSE doc[field]

\* all_tokens = title_tokens + desc_tokens
AllTokens(doc) == TokensOrEmpty(doc, "title_tokens") \o TokensOrEmpty(doc, "desc_tokens")

\* inverted_index.get(t, [])
Get(index, t) == IF t \in DOMAIN index THEN index[t] ELSE <<>>

\* mutant: the positions are counted from 1
RECURSIVE MutLocalIndexFromOne(_, _, _)
MutLocalIndexFromOne(doc_id, all_tokens, n) ==
    IF n = 0 THEN <<>>
    ELSE LET local_index == MutLocalIndexFromOne(doc_id, all_tokens, n - 1)
             term == all_tokens[n]
             pos == n
         IN  IF term \notin DOMAIN local_index
             THEN [t \in DOMAIN local_index \cup {term} |->
                      IF t = term THEN [doc_id |-> doc_id, positions |-> <<pos>>]
                      ELSE local_index[t]]
             ELSE [local_index EXCEPT ![term].positions = Append(@, pos)]

\* the local_index of one document after the first n tokens: term ->
\* [doc_id, positions]
RECURSIVE LocalIndex(_, _, _)
LocalIndex(doc_id, all_tokens, n) ==
    IF n = 0 THEN <<>>
    ELSE LET local_index == LocalIndex(doc_id, all_tokens, n - 1)
             term == all_tokens[n]
             pos == n - 1
         IN  IF term \notin DOMAIN local_index
             THEN [t \in DOMAIN local_index \cup {term} |->
                      IF t = term THEN [doc_id |-> doc_id, positions |-> <<pos>>]
                      ELSE local_index[t]]
             ELSE [local_index EXCEPT ![term].positions = Append(@, pos)]

\* mutant: the posting is appended once for every occurrence of the term
MutMergeLocalPerOccurrence(inverted_index, local_index) ==
    [t \in DOMAIN inverted_index \cup DOMAIN local_index |->
        IF t \in DOMAIN local_index
        THEN Get(inverted_index, t)
                \o [k \in 1..Len(local_index[t].positions) |-> local_index[t]]
        ELSE inverted_index[t]]

\* mutant: the posting is put in front of the list
MutMergeLocalInFront(inverted_index, local_index) ==
    [t \in DOMAIN inverted_index \cup DOMAIN local_index |->
        IF t \in DOMAIN local_index
        THEN <<local_index[t]>> \o Get(inverted_index, t)
        ELSE inverted_index[t]]

\* for term, posting in local_index.items(): inverted_index[term].append(posting)
MergeLocal(inverted_index, local_index) ==
    [t \in DOMAIN inverted_index \cup DOMAIN local_index |->
        IF t \in DOMAIN local_index
        THEN Append(Get(inverted_index, t), local_index[t])
        ELSE inverted_index[t]]

\* the index after the first n documents of the corpus
RECURSIVE IndexUpTo(_, _)
IndexUpTo(corpus, n) ==
    IF n = 0 THEN <<>>
    ELSE LET all_tokens == AllTokens(corpus[n])
         IN  MergeLocal(IndexUpTo(corpus, n - 1),
                        LocalIndex(n - 1, all_tokens, Len(all_tokens)))

\* mutant: reverse_map numbers the documents from 1
MutCreateReverseFromOne(corpus) ==
    [inverted_index |-> IndexUpTo(corpus, Len(corpus)),
     doc_id_map |-> [doc_id \in 0..(Len(corpus) - 1) |-> Keys(corpus)[doc_id + 1]],
     reverse_map |-> [pid \in Range(Keys(corpus)) |->
                        CHOOSE i \in 1..Len(corpus) : corpus[i].pid = pid]]

create_inverted_index(corpus) ==
    [inverted_index |-> IndexUpTo(corpus, Len(corpus)),
     doc_id_map |-> [doc_id \in 0..(Len(corpus) - 1) |-> Keys(corpus)[doc_id + 1]],
     reverse_map |-> [pid \in Range(Keys(corpus)) |->
                        (CHOOSE i \in 1..Len(corpus) : corpus[i].pid = pid) - 1]]

(***************************************************************************)
(* Floating point: math.log and math.sqrt in fixed point.                  *)
(***************************************************************************)
\* the working precision of the logarithm series
Fine == Scale * 100

\* sum over j >= 0 of z^(2j+1) / (2j+1), z and the result in Fine units;
\* term is z^(2j+1), d is 2j+1
RECURSIVE AtanhSeries(_, _, _)
AtanhSeries(z, term, d) ==
    IF term = 0 THEN 0
    ELSE (term \div d) + AtanhSeries(z, (((term * z) \div Fine) * z) \div Fine, d + 2)

\* ln(p / q) for p >= q > 0, as 2 * atanh((p - q) / (p + q))
LnUp(p, q) ==
    LET z == ((p - q) * Fine) \div (p + q)
    IN  (2 * AtanhSeries(z, z, 1) * Scale) \div Fine

\* math.log(p / q), p > 0 and q > 0, in Scale units
Ln(p, q) == IF p >= q THEN LnUp(p, q) ELSE 0 - LnUp(q, p)

\* the largest r in lo..hi with r * r <= n
RECURSIVE IsqrtIn(_, _, _)
IsqrtIn(n, lo, hi) ==
    IF lo >= hi THEN lo
    ELSE LET mid == (lo + hi + 1) \div 2
         IN  IF mid * mid <= n THEN IsqrtIn(n, mid, hi) ELSE IsqrtIn(n, lo, mid - 1)

\* math.sqrt of a sum of squares of Scale-unit numbers, in Scale units
Sqrt(n) == IsqrtIn(n, 0, Min(n, 40000))

(***************************************************************************)
(* Helpers shared by the ranking strategies.                               *)
(***************************************************************************)
\* len(doc_id_map)
NumDocs(doc_id_map) == Cardinality(DOMAIN doc_id_map)

\* df[t] = len(inverted_index.get(t, []))
Df(inverted_index, t) == Len(Get(inverted_index, t))

\* mutant: the ratio is taken upside down, log(df / N)
MutIdfInverted(N, df) == IF df > 0 THEN Ln(df, N) ELSE 0

\* idf[t] = math.log(N / df[t]) if df[t] > 0 else 0
IdfTfIdf(N, df) == IF df > 0 THEN Ln(N, df) ELSE 0

\* mutant: a contribution of 0 creates no entry
MutAddScore(scores, doc_id, delta) ==
    IF delta = 0 THEN scores
    ELSE IF \E i \in 1..Len(scores) : scores[i].doc_id = doc_id
    THEN [i \in 1..Len(scores) |->
            IF scores[i].doc_id = doc_id
            THEN [doc_id |-> doc_id, score |-> scores[i].score + delta]
            ELSE scores[i]]
    ELSE Append(scores, [doc_id |-> doc_id, score |-> delta])

\* mutant: the contribution replaces the score instead of adding to it
MutAddScoreAssign(scores, doc_id, delta) ==
    IF \E i \in 1..Len(scores) : scores[i].doc_id = doc_id
    THEN [i \in 1..Len(scores) |->
            IF scores[i].doc_id = doc_id
            THEN [doc_id |-> doc_id, score |-> delta]
            ELSE scores[i]]
    ELSE Append(scores, [doc_id |-> doc_id, score |-> delta])

\* scores[doc_id] += delta on a defaultdict(float), entries in insertion order
AddScore(scores, doc_id, delta) ==
    IF \E i \in 1..Len(scores) : scores[i].doc_id = doc_id
    THEN [i \in 1..Len(scores) |->
            IF scores[i].doc_id = doc_id
            THEN [doc_id |-> doc_id, score |-> scores[i].score + delta]
            ELSE scores[i]]
    ELSE Append(scores, [doc_id |-> doc_id, score |-> delta])

\* scores[doc_id] read back from a defaultdict(float)
ScoreOf(scores, doc_id) ==
    IF \E i \in 1..Len(scores) : scores[i].doc_id = doc_id
    THEN scores[CHOOSE i \in 1..Len(scores) : scores[i].doc_id = doc_id].score
    ELSE 0

\* sorted(items, key=score, reverse=True): stable, larger scores first, equal
\* scores in their original order
InsertDesc(sorted, x) ==
    LET k == Cardinality({i \in 1..Len(sorted) : sorted[i].score >= x.score})
    IN  SubSeq(sorted, 1, k) \o <<x>> \o SubSeq(sorted, k + 1, Len(sorted))

\* mutant: the entries are left in accumulation order
MutSortedDesc(items) == items

RECURSIVE SortedDesc(_)
SortedDesc(items) ==
    IF items = <<>> THEN <<>>
    ELSE InsertDesc(SortedDesc(SubSeq(items, 1, Len(items) - 1)), items[Len(items)])

\* iterating a set of doc ids: the order of the process's hash table
SetIter(S) ==
    LET In(x) == x \in S IN SelectSeq(hashOrder, In)

\* {p[0] for p in postings}
DocsWith(postings) == {postings[i].doc_id : i \in 1..Len(postings)}

\* mutant: the documents of any query term (OR instead of AND)
MutMatchingDocsOr(query_terms, inverted_index, matching_docs) ==
    matching_docs \cap
        UNION {DocsWith(Get(inverted_index, query_terms[i])) : i \in 1..Len(query_terms)}

\* mutant: a term without postings is skipped instead of emptying the result
MutMatchingDocsSkip(query_terms, inverted_index, matching_docs) ==
    {d \in matching_docs :
        \A i \in 1..Len(query_terms) :
            Get(inverted_index, query_terms[i]) # <<>>
                => d \in DocsWith(Get(inverted_index, query_terms[i]))}

\* the AND loop: for t in query_terms, intersect with the documents of t;
\* a term without postings empties the set and ends the loop
RECURSIVE MatchingDocs(_, _, _)
MatchingDocs(query_terms, inverted_index, matching_docs) ==
    IF query_terms = <<>> THEN matching_docs
    ELSE LET postings == Get(inverted_index, query_terms[1])
         IN  IF postings = <<>> THEN {}
             ELSE MatchingDocs(Tail(query_terms), inverted_index,
                               matching_docs \cap DocsWith(postings))

\* getattr(doc, field, []): the list, [] for a missing field, None for a
\* field that is None
GetAttr(doc, field) ==
    IF field \in doc.none_fields THEN None
    ELSE IF field \in doc.missing_fields THEN Some(<<>>)
    ELSE Some(doc[field])

\* tokens = getattr(doc, "title_tokens", []) + getattr(doc, "desc_tokens", []):
\* None when an operand is None (TypeError)
Tokens(doc) ==
    LET title_tokens == GetAttr(doc, "title_tokens")
        desc_tokens == GetAttr(doc, "desc_tokens")
    IN  IF IsNone(title_tokens) \/ IsNone(desc_tokens) THEN None
        ELSE Some(Val(title_tokens) \o Val(desc_tokens))

\* the loop over doc_id_map.items() raises: some document has a None field
DocLengthsRaises(corpus, doc_id_map) ==
    \E doc_id \in DOMAIN doc_id_map : IsNone(Tokens(DocOf(corpus, doc_id_map[doc_id])))

\* mutant: the length of a document counts its description tokens only
MutDocLengthsDescOnly(corpus, doc_id_map) ==
    [doc_id \in DOMAIN doc_id_map |->
        Len(TokensOrEmpty(DocOf(corpus, doc_id_map[doc_id]), "desc_tokens"))]

\* doc_lengths[doc_id] = len(tokens)
DocLengths(corpus, doc_id_map) ==
    [doc_id \in DOMAIN doc_id_map |-> Len(Val(Tokens(DocOf(corpus, doc_id_map[doc_id]))))]

(***************************************************************************)
(* rank_query_tf_idf                                                       *)
(***************************************************************************)
\* mutant: the weight of a term is divided by its tf instead of multiplied
RECURSIVE MutTfIdfPostingsPerTf(_, _, _)
MutTfIdfPostingsPerTf(scores, postings, idf_t) ==
    IF postings = <<>> THEN scores
    ELSE MutTfIdfPostingsPerTf(AddScore(scores, postings[1].doc_id,
                                        idf_t \div Len(postings[1].positions)),
                               Tail(postings), idf_t)

\* for posting in postings: scores[doc_id] += tf * idf[t]
RECURSIVE TfIdfPostings(_, _, _)
TfIdfPostings(scores, postings, idf_t) ==
    IF postings = <<>> THEN scores
    ELSE TfIdfPostings(AddScore(scores, postings[1].doc_id,
                                Len(postings[1].positions) * idf_t),
                       Tail(postings), idf_t)

\* mutant: a term that comes again later in the query is skipped, so that
\* every distinct term is scored once
RECURSIVE MutTfIdfTermsOnce(_, _, _, _)
MutTfIdfTermsOnce(scores, query_terms, inverted_index, N) ==
    IF query_terms = <<>> THEN scores
    ELSE LET t == query_terms[1]
         IN  MutTfIdfTermsOnce(
                IF t \in Range(Tail(query_terms)) THEN scores
                ELSE TfIdfPostings(scores, Get(inverted_index, t),
                                   IdfTfIdf(N, Df(inverted_index, t))),
                Tail(query_terms), inverted_index, N)

\* for t in query_terms: ...
RECURSIVE TfIdfTerms(_, _, _, _)
TfIdfTerms(scores, query_terms, inverted_index, N) ==
    IF query_terms = <<>> THEN scores
    ELSE LET t == query_terms[1]
         IN  TfIdfTerms(TfIdfPostings(scores, Get(inverted_index, t),
                                      IdfTfIdf(N, Df(inverted_index, t))),
                        Tail(query_terms), inverted_index, N)

rank_query_tf_idf(query, inverted_index, corpus, doc_id_map) ==
    LET N == NumDocs(doc_id_map)
        query_terms == QueryTerms(query)
    IN  IF \E i \in 1..Len(query_terms) : Df(inverted_index, query_terms[i]) > 0 /\ N = 0
        THEN [raised |-> TRUE, value |-> <<>>]    \* math.log(0): ValueError
        ELSE [raised |-> FALSE,
              value |-> SortedDesc(TfIdfTerms(<<>>, query_terms, inverted_index, N))]

(***************************************************************************)
(* rank_query_tf_idf_cosine                                                *)
(***************************************************************************)
\* the tf of t in doc_id: the positions of the first posting of t for doc_id
TfOf(inverted_index, t, doc_id) ==
    LET postings == Get(inverted_index, t)
        hits == {i \in 1..Len(postings) : postings[i].doc_id = doc_id}
    IN  IF hits = {} THEN 0
        ELSE Len(postings[CHOOSE i \in hits : \A j \in hits : i <= j].positions)

\* a / b on floats: ZeroDivisionError when b is 0
Div(a, b) ==
    IF b = 0 THEN [raised |-> TRUE, value |-> 0]
    ELSE [raised |-> FALSE, value |-> a \div b]

\* mutant: the quotient is taken without the test of the norms
MutCosineUnguarded(v1, v2) ==
    LET m == Min(Len(v1), Len(v2))
        dot == SumSeq([i \in 1..m |-> v1[i] * v2[i]])
        n1 == Sqrt(SumSeq([i \in 1..Len(v1) |-> v1[i] * v1[i]]))
        n2 == Sqrt(SumSeq([i \in 1..Len(v2) |-> v2[i] * v2[i]]))
    IN  Div(dot * Scale, n1 * n2)

\* cosine(v1, v2) = dot / (n1 * n2) if n1 and n2 else 0, as [raised, value]
cosine(v1, v2) ==
    LET m == Min(Len(v1), Len(v2))
        dot == SumSeq([i \in 1..m |-> v1[i] * v2[i]])
        n1 == Sqrt(SumSeq([i \in 1..Len(v1) |-> v1[i] * v1[i]]))
        n2 == Sqrt(SumSeq([i \in 1..Len(v2) |-> v2[i] * v2[i]]))
    IN  IF n1 # 0 /\ n2 # 0 THEN Div(dot * Scale, n1 * n2)
        ELSE [raised |-> FALSE, value |-> 0]

rank_query_tf_idf_cosine(query, inverted_index, corpus, doc_id_map) ==
    LET N == NumDocs(doc_id_map)
        query_terms == QueryTerms(query)
        idf(t) == IdfTfIdf(N, Df(inverted_index, t))
        matching_docs == MatchingDocs(query_terms, inverted_index, DOMAIN doc_id_map)
        query_vec == [i \in 1..Len(query_terms) |-> idf(query_terms[i])]
        doc_vec(doc_id) ==
            [i \in 1..Len(query_terms) |->
                TfOf(inverted_index, query_terms[i], doc_id) * idf(query_terms[i])]
        order == SetIter(matching_docs)
        scores == [i \in 1..Len(order) |->
                     [doc_id |-> order[i],
                      score |-> cosine(query_vec, doc_vec(order[i])).value]]
    IN  IF DocLengthsRaises(corpus, doc_id_map)
        THEN [raised |-> TRUE, value |-> <<>>]    \* None + list: TypeError
        ELSE IF matching_docs = {}
        THEN [raised |-> FALSE, value |-> <<>>]
        ELSE IF \E i \in 1..Len(order) : cosine(query_vec, doc_vec(order[i])).raised
        THEN [raised |-> TRUE, value |-> <<>>]    \* dot / 0: ZeroDivisionError
        ELSE [raised |-> FALSE, value |-> SortedDesc(scores)]

(***************************************************************************)
(* rank_query_bm25, with the defaults k1 = 1.5 = K1Num / K1Den and         *)
(* b = 0.75 = BNum / BDen                                                  *)
(***************************************************************************)
K1Num == 3
K1Den == 2
BNum == 3
BDen == 4

\* idf[t] = math.log((N - df + 0.5) / (df + 0.5) + 1) if df > 0 else 0
IdfBm25(N, df) == IF df > 0 THEN Ln(2 * N + 2, 2 * df + 1) ELSE 0

\* mutant: the average is taken without the test for an empty doc_id_map
MutAvgLen(doc_lengths, N) ==
    IF N = 0 THEN [raised |-> TRUE, num |-> 0, den |-> 0]    \* ZeroDivisionError
    ELSE [raised |-> FALSE, num |-> SumSeq([i \in 1..N |-> doc_lengths[i - 1]]),
          den |-> N]

\* avg_len = sum(doc_lengths.values()) / N if N > 0 else 1.0, as the
\* fraction num / den
AvgLen(doc_lengths, N) ==
    IF N > 0
    THEN [raised |-> FALSE, num |-> SumSeq([i \in 1..N |-> doc_lengths[i - 1]]),
          den |-> N]
    ELSE [raised |-> FALSE, num |-> 1, den |-> 1]

\* idf * num / den with num = tf * (k1 + 1) and
\* den = tf + k1 * (1 - b + b * (L / avg_len)), avg_len = sumL / N
Bm25Term(idf_t, tf, L, sumL, N) ==
    (idf_t * tf * (K1Num + K1Den) * BDen * sumL)
        \div (tf * K1Den * BDen * sumL + K1Num * ((BDen - BNum) * sumL + BNum * L * N))

\* for doc_id, positions in postings: scores[doc_id] += idf[t] * (num / den)
RECURSIVE Bm25Postings(_, _, _, _, _, _)
Bm25Postings(scores, postings, idf_t, doc_lengths, sumL, N) ==
    IF postings = <<>> THEN scores
    ELSE LET doc_id == postings[1].doc_id
             tf == Len(postings[1].positions)
         IN  Bm25Postings(AddScore(scores, doc_id,
                                   Bm25Term(idf_t, tf, doc_lengths[doc_id], sumL, N)),
                          Tail(postings), idf_t, doc_lengths, sumL, N)

\* the loop over query_terms: [scores, matching_docs, div0]; a term without
\* postings empties matching_docs and ends the loop; div0 when a posting is
\* scored with avg_len = 0
RECURSIVE Bm25Terms(_, _, _, _, _, _)
Bm25Terms(acc, query_terms, inverted_index, doc_lengths, avg_len, N) ==
    IF query_terms = <<>> THEN acc
    ELSE LET t == query_terms[1]
             postings == Get(inverted_index, t)
         IN  IF postings = <<>>
             THEN [acc EXCEPT !.matching_docs = {}]
             ELSE IF avg_len.num = 0
             THEN [acc EXCEPT !.div0 = TRUE]
             ELSE Bm25Terms(
                    [scores |-> Bm25Postings(acc.scores, postings,
                                             IdfBm25(N, Df(inverted_index, t)),
                                             doc_lengths, avg_len.num, avg_len.den),
                     matching_docs |-> acc.matching_docs \cap DocsWith(postings),
                     div0 |-> FALSE],
                    Tail(query_terms), inverted_index, doc_lengths, avg_len, N)

rank_query_bm25(query, inverted_index, corpus, doc_id_map) ==
    LET N == NumDocs(doc_id_map)
        query_terms == QueryTerms(query)
        doc_lengths == DocLengths(corpus, doc_id_map)
        avg_len == AvgLen(doc_lengths, N)
        done == Bm25Terms([scores |-> <<>>, matching_docs |-> DOMAIN doc_id_map,
                           div0 |-> FALSE],
                          query_terms, inverted_index, doc_lengths, avg_len, N)
        order == SetIter(done.matching_docs)
        filtered == [i \in 1..Len(order) |->
                       [doc_id |-> order[i], score |-> ScoreOf(done.scores, order[i])]]
    IN  IF DocLengthsRaises(corpus, doc_id_map)
        THEN [raised |-> TRUE, value |-> <<>>]    \* None + list: TypeError
        ELSE IF avg_len.raised \/ done.div0
        THEN [raised |-> TRUE, value |-> <<>>]    \* L / avg_len: ZeroDivisionError
        ELSE [raised |-> FALSE, value |-> SortedDesc(filtered)]

(***************************************************************************)
(* search_in_corpus                                                        *)
(***************************************************************************)
\* the algorithm names a caller may pass: the three of the code and the
\* spelling "tfidf_cosine", which the code does not know
Algos == {"tfidf", "tfidf_cos", "bm25", "tfidf_cosine"}

\* mutant: only None and the empty string are caught
MutBlank(query) == IsNone(query) \/ Val(query) = <<>>

\* not query or query.strip() == "", query being None or a str
Blank(query) == IsNone(query) \/ Val(query) = <<>> \/ Strip(Val(query)) = <<>>

\* mutant: an unknown name falls back to TF-IDF
MutDispatch(query, algo, corpus, inverted_index, doc_id_map) ==
    IF algo = "tfidf_cos"
    THEN [invoked |-> "rank_query_tf_idf_cosine"]
           @@ rank_query_tf_idf_cosine(query, inverted_index, corpus, doc_id_map)
    ELSE IF algo = "bm25"
    THEN [invoked |-> "rank_query_bm25"]
           @@ rank_query_bm25(query, inverted_index, corpus, doc_id_map)
    ELSE [invoked |-> "rank_query_tf_idf"]
           @@ rank_query_tf_idf(query, inverted_index, corpus, doc_id_map)

\* mutant: the "bm25" branch is a copy of the "tfidf_cos" branch
MutDispatchCopied(query, algo, corpus, inverted_index, doc_id_map) ==
    IF algo = "tfidf"
    THEN [invoked |-> "rank_query_tf_idf"]
           @@ rank_query_tf_idf(query, inverted_index, corpus, doc_id_map)
    ELSE IF algo = "tfidf_cos" \/ algo = "bm25"
    THEN [invoked |-> "rank_query_tf_idf_cosine"]
           @@ rank_query_tf_idf_cosine(query, inverted_index, corpus, doc_id_map)
    ELSE [invoked |-> "none", raised |-> FALSE, value |-> <<>>]

\* the if / elif chain: [invoked, raised, value]
Dispatch(query, algo, corpus, inverted_index, doc_id_map) ==
    IF algo = "tfidf"
    THEN [invoked |-> "rank_query_tf_idf"]
           @@ rank_query_tf_idf(query, inverted_index, corpus, doc_id_map)
    ELSE IF algo = "tfidf_cos"
    THEN [invoked |-> "rank_query_tf_idf_cosine"]
           @@ rank_query_tf_idf_cosine(query, inverted_index, corpus, doc_id_map)
    ELSE IF algo = "bm25"
    THEN [invoked |-> "rank_query_bm25"]
           @@ rank_query_bm25(query, inverted_index, corpus, doc_id_map)
    ELSE [invoked |-> "none", raised |-> FALSE, value |-> <<>>]

\* mutant: one entry too many is kept
MutTruncate(ranked, top_k) == SubSeq(ranked, 1, Min(top_k + 1, Len(ranked)))

\* ranked[:top_k], top_k >= 0
Truncate(ranked, top_k) == SubSeq(ranked, 1, Min(top_k, Len(ranked)))

\* mutant: the description is filled with the title
MutMaterializeTitleTwice(entry, corpus, doc_id_map) ==
    LET pid == doc_id_map[entry.doc_id]
        d == DocOf(corpus, pid)
    IN  [pid |-> pid, title |-> d.title, description |-> d.title,
         selling_price |-> d.selling_price, discount |-> d.discount,
         average_rating |-> d.average_rating, url |-> d.url,
         score |-> entry.score]

\* the record built from one (doc_id, score)
Materialize(entry, corpus, doc_id_map) ==
    LET pid == doc_id_map[entry.doc_id]
        d == DocOf(corpus, pid)
    IN  [pid |-> pid, title |-> d.title, description |-> d.description,
         selling_price |-> d.selling_price, discount |-> d.discount,
         average_rating |-> d.average_rating, url |-> d.url,
         score |-> entry.score]

search_in_corpus(query, algo, corpus, inverted_index, doc_id_map, top_k) ==
    IF Blank(query)
    THEN [invoked |-> "none", raised |-> FALSE, value |-> <<>>]
    ELSE LET r == Dispatch(Val(query), algo, corpus, inverted_index, doc_id_map)
             kept == Truncate(r.value, top_k)
         IN  IF r.raised THEN r
             ELSE [invoked |-> r.invoked, raised |-> FALSE,
                   value |-> [i \in 1..Len(kept) |->
                                Materialize(kept[i], corpus, doc_id_map)]]

(***************************************************************************)
(* analytics_data.py: the in-memory analytics store. The model keeps the   *)
(* dictionaries of sessions, queries and clicks, their indexes and the two *)
(* per-document click counters; the counters of browsers, terms and hours  *)
(* are left out, as no other field is computed from them. An id is         *)
(* str(uuid.uuid4()): it is modelled as a value no earlier call returned.  *)
(***************************************************************************)
\* dict[k] = v
SetItem(d, k, v) == [x \in DOMAIN d \cup {k} |-> IF x = k THEN v ELSE d[x]]

\* dict.get(k, default); also Counter[k] and defaultdict[k] with default 0 and []
GetOr(d, k, default) == IF k \in DOMAIN d THEN d[k] ELSE default

\* str(uuid.uuid4()) for a dictionary of that kind of object
Uuid4(kind, d) == <<kind, Cardinality(DOMAIN d) + 1>>

\* `if session_id`, `if query_id`: None and the empty string are false
Truthy(o) == ~IsNone(o) /\ Val(o) # <<>>

\* AnalyticsData(): every dictionary and counter is empty
AnalyticsData ==
    [sessions |-> <<>>, queries |-> <<>>, clicks |-> <<>>,
     queries_by_session |-> <<>>, clicks_by_query |-> <<>>, clicks_by_doc |-> <<>>,
     fact_clicks |-> <<>>, doc_popularity |-> <<>>]

\* start_session(user_agent): a new session under a new id, with no query and no click
start_session(self, user_agent) ==
    LET session_id == Uuid4("session", self.sessions)
        session == [user_agent |-> user_agent, end_time |-> None,
                    queries_count |-> 0, clicks_count |-> 0]
    IN  [self |-> [self EXCEPT !.sessions = SetItem(@, session_id, session)],
         session_id |-> session_id]

\* end_session(session_id): sets end_time of a known session, removes nothing
end_session(self, session_id) ==
    IF session_id \in DOMAIN self.sessions
    THEN [self EXCEPT !.sessions[session_id].end_time = Some("now")]
    ELSE self

\* track_query that records the query under the id it was given
MutTrackQueryNoAutoStart(self, session_id, query_text) ==
    LET sid == IF IsNone(session_id) THEN <<"None", 0>> ELSE Val(session_id)
        query_id == Uuid4("query", self.queries)
        query == [query_text |-> query_text, session_id |-> sid]
        recorded == [self EXCEPT
                        !.queries = SetItem(@, query_id, query),
                        !.queries_by_session =
                            SetItem(@, sid, Append(GetOr(@, sid, <<>>), query_id))]
    IN  [self |-> IF sid \in DOMAIN recorded.sessions
                  THEN [recorded EXCEPT !.sessions[sid].queries_count = @ + 1]
                  ELSE recorded,
         query_id |-> query_id]

\* track_query(session_id, query_text): a None or unknown session_id is
\* replaced by the id of a session started on the spot
track_query(self, session_id, query_text) ==
    LET known == ~IsNone(session_id) /\ Val(session_id) \in DOMAIN self.sessions
        started == start_session(self, Some("Unknown (auto-created)"))
        s0 == IF known THEN self ELSE started.self
        sid == IF known THEN Val(session_id) ELSE started.session_id
        query_id == Uuid4("query", s0.queries)
        query == [query_text |-> query_text, session_id |-> sid]
        recorded == [s0 EXCEPT
                        !.queries = SetItem(@, query_id, query),
                        !.queries_by_session =
                            SetItem(@, sid, Append(GetOr(@, sid, <<>>), query_id))]
    IN  [self |-> IF sid \in DOMAIN recorded.sessions
                  THEN [recorded EXCEPT !.sessions[sid].queries_count = @ + 1]
                  ELSE recorded,
         query_id |-> query_id]

\* track_click(query_id, doc_id, session_id): records the click, indexes it
\* by query and by document, and counts it in both per-document counters
track_click(self, query_id, doc_id, session_id) ==
    LET click_id == Uuid4("click", self.clicks)
        click == [query_id |-> query_id, doc_id |-> doc_id, session_id |-> session_id]
        recorded == [self EXCEPT
                        !.clicks = SetItem(@, click_id, click),
                        !.clicks_by_query =
                            SetItem(@, query_id, Append(GetOr(@, query_id, <<>>), click_id)),
                        !.clicks_by_doc =
                            SetItem(@, doc_id, Append(GetOr(@, doc_id, <<>>), click_id)),
                        !.fact_clicks = SetItem(@, doc_id, GetOr(@, doc_id, 0) + 1),
                        !.doc_popularity = SetItem(@, doc_id, GetOr(@, doc_id, 0) + 1)]
    IN  [self |-> IF Truthy(session_id) /\ Val(session_id) \in DOMAIN recorded.sessions
                  THEN [recorded EXCEPT !.sessions[Val(session_id)].clicks_count = @ + 1]
                  ELSE recorded,
         click_id |-> click_id]

(***************************************************************************)
(* web_app.py: the routes that write the click counters                    *)
(***************************************************************************)
\* the pids of the corpus web_app loads at start
WebPids == {"P1", "P2"}

\* GET /doc_details?pid=..&query_id=..: query_id is the request argument or,
\* without one, the last_query_id of the cookie session
doc_details(self, pid, query_id) ==
    IF IsNone(pid) THEN self                       \* 400
    ELSE IF Val(pid) \notin WebPids THEN self      \* 404
    ELSE LET tracked == IF Truthy(query_id)
                        THEN track_click(self, Val(query_id), Val(pid), None).self
                        ELSE self
         IN  [tracked EXCEPT
                 !.fact_clicks = SetItem(@, Val(pid), GetOr(@, Val(pid), 0) + 1)]

(***************************************************************************)
(* search_engine.py: the module globals, initialize, SearchEngine          *)
(***************************************************************************)
\* the orders in which a hash table may hand out the doc ids 0..MaxDocs-1
HashOrders ==
    {p \in [1..MaxDocs -> 0..(MaxDocs - 1)] :
        \A i, j \in 1..MaxDocs : p[i] = p[j] => i = j}

\* the query strings a caller may pass
QueryStrings == BoundedSeq(QueryChars, MaxQueryLen)

\* a call that has not happened / returns nothing
NoCall == [fn |-> "none", query |-> None, algo |-> "", top_k |-> 0]
NoRet == [invoked |-> "none", raised |-> FALSE, value |-> <<>>]

\* the threads of the process, and the frame of a thread that runs nothing
Threads == 1..MaxThreads
NoFrame == [fn |-> "none", query |-> None, algo |-> "", top_k |-> 0,
            file |-> <<>>, local |-> None, ret |-> NoRet]

Init ==
    /\ LOADED = FALSE
    /\ CORPUS = None
    /\ INVERTED_INDEX = None
    /\ DOC_ID_MAP = None
    /\ PID_TO_DOCID = None
    /\ hashOrder \in HashOrders
    /\ call = NoCall
    /\ ret = NoRet
    /\ repeated = FALSE
    /\ pc = [t \in Threads |-> "idle"]
    /\ frame = [t \in Threads |-> NoFrame]
    /\ loads = 0
    /\ builds = 0
    /\ analytics_data = AnalyticsData

\* initialize(corpus_path): file is what load_corpus reads at corpus_path
initialize(file) ==
    IF LOADED
    THEN UNCHANGED <<LOADED, CORPUS, INVERTED_INDEX, DOC_ID_MAP, PID_TO_DOCID,
                     loads, builds>>
    ELSE LET corpus == load_corpus(file)
             built == create_inverted_index(corpus)
         IN  /\ CORPUS' = Some(corpus)
             /\ INVERTED_INDEX' = Some(built.inverted_index)
             /\ DOC_ID_MAP' = Some(built.doc_id_map)
             /\ PID_TO_DOCID' = Some(built.reverse_map)
             /\ LOADED' = TRUE
             /\ loads' = loads + 1
             /\ builds' = builds + 1

\* SearchEngine(corpus_path): __init__ calls initialize
Construct(file) ==
    /\ call = NoCall
    /\ UNCHANGED analytics_data
    /\ initialize(file)
    /\ call' = [NoCall EXCEPT !.fn = "SearchEngine"]
    /\ ret' = NoRet
    /\ repeated' = FALSE
    /\ UNCHANGED <<hashOrder, pc, frame>>

\* dummy_search(corpus, search_id, num_results): min(num_results, len) distinct
\* documents drawn at random, each with a random ranking in Scale units
DummyResults(corpus, num_results) ==
    LET n == Min(num_results, Len(corpus))
    IN  {[i \in 1..n |-> [pid |-> corpus[pick[i]].pid, title |-> corpus[pick[i]].title,
                          description |-> corpus[pick[i]].description,
                          url |-> corpus[pick[i]].url, ranking |-> rnd]] :
            pick \in {p \in [1..n -> 1..Len(corpus)] :
                        \A i, j \in 1..n : p[i] = p[j] => i = j},
            rnd \in {0, Scale \div 2}}

\* ResultItem(pid, title, description, url, ranking=score)
ResultItem(r) ==
    [pid |-> r.pid, title |-> r.title, description |-> r.description,
     url |-> r.url, ranking |-> r.score]

\* SearchEngine.search(search_query, search_id, corpus, algo, top_k): the
\* values it may return
SearchEngineSearch(search_query, corpus_arg, algo, top_k) ==
    LET corpus == IF IsNone(corpus_arg) THEN CORPUS ELSE corpus_arg
    IN  IF IsNone(INVERTED_INDEX) \/ IsNone(DOC_ID_MAP)
        THEN IF IsNone(corpus)
             THEN {[invoked |-> "dummy_search", raised |-> TRUE, value |-> <<>>]}
             ELSE {[invoked |-> "dummy_search", raised |-> FALSE, value |-> v] :
                      v \in DummyResults(Val(corpus), top_k)}
        ELSE LET r == search_in_corpus(search_query, algo, Val(corpus),
                                       Val(INVERTED_INDEX), Val(DOC_ID_MAP), top_k)
             IN  {[r EXCEPT !.value = [i \in 1..Len(r.value) |-> ResultItem(r.value[i])]]}

(***************************************************************************)
(* The calls a client makes once the engine is constructed. call and ret   *)
(* hold the call in progress and what it returns; the client takes the     *)
(* result (Return) before it makes its next call, or makes the same        *)
(* search_in_corpus call once more (SearchAgain).                          *)
(***************************************************************************)
\* mutant: the search consumes the postings of the terms it looked up
MutSearchInCorpus(query, algo, top_k) ==
    /\ LOADED
    /\ UNCHANGED analytics_data
    /\ call = NoCall
    /\ call' = [fn |-> "search_in_corpus", query |-> query, algo |-> algo,
                top_k |-> top_k]
    /\ ret' = search_in_corpus(query, algo, Val(CORPUS), Val(INVERTED_INDEX),
                               Val(DOC_ID_MAP), top_k)
    /\ repeated' = FALSE
    /\ INVERTED_INDEX' =
          IF IsNone(query) THEN INVERTED_INDEX
          ELSE Some([t \in DOMAIN Val(INVERTED_INDEX) |->
                       IF t \in Range(QueryTerms(Val(query))) THEN <<>>
                       ELSE Val(INVERTED_INDEX)[t]])
    /\ UNCHANGED <<LOADED, CORPUS, DOC_ID_MAP, PID_TO_DOCID, hashOrder>>
    /\ UNCHANGED <<pc, frame, loads, builds>>

\* search_in_corpus on the loaded corpus and its index
SearchInCorpus(query, algo, top_k) ==
    /\ LOADED
    /\ UNCHANGED analytics_data
    /\ call = NoCall
    /\ call' = [fn |-> "search_in_corpus", query |-> query, algo |-> algo,
                top_k |-> top_k]
    /\ ret' = search_in_corpus(query, algo, Val(CORPUS), Val(INVERTED_INDEX),
                               Val(DOC_ID_MAP), top_k)
    /\ repeated' = FALSE
    /\ UNCHANGED <<LOADED, CORPUS, INVERTED_INDEX, DOC_ID_MAP, PID_TO_DOCID, hashOrder>>
    /\ UNCHANGED <<pc, frame, loads, builds>>

\* the same search_in_corpus call, made a second time
SearchAgain ==
    /\ call.fn = "search_in_corpus"
    /\ UNCHANGED analytics_data
    /\ ~repeated
    /\ call' = call
    /\ ret' = search_in_corpus(call.query, call.algo, Val(CORPUS), Val(INVERTED_INDEX),
                               Val(DOC_ID_MAP), call.top_k)
    /\ repeated' = TRUE
    /\ UNCHANGED <<LOADED, CORPUS, INVERTED_INDEX, DOC_ID_MAP, PID_TO_DOCID, hashOrder>>
    /\ UNCHANGED <<pc, frame, loads, builds>>

\* the caller takes the returned value
Return ==
    /\ call # NoCall
    /\ UNCHANGED analytics_data
    /\ call' = NoCall
    /\ ret' = NoRet
    /\ repeated' = FALSE
    /\ UNCHANGED <<LOADED, CORPUS, INVERTED_INDEX, DOC_ID_MAP, PID_TO_DOCID, hashOrder>>
    /\ UNCHANGED <<pc, frame, loads, builds>>

RankFns == {"rank_query_tf_idf", "rank_query_tf_idf_cosine", "rank_query_bm25"}

\* the strategy named fn
Rank(fn, query, inverted_index, corpus, doc_id_map) ==
    IF fn = "rank_query_tf_idf"
    THEN rank_query_tf_idf(query, inverted_index, corpus, doc_id_map)
    ELSE IF fn = "rank_query_tf_idf_cosine"
    THEN rank_query_tf_idf_cosine(query, inverted_index, corpus, doc_id_map)
    ELSE rank_query_bm25(query, inverted_index, corpus, doc_id_map)

\* one ranking strategy called directly on the loaded corpus and its index
RankDirect(fn, query) ==
    /\ LOADED
    /\ UNCHANGED analytics_data
    /\ call = NoCall
    /\ call' = [fn |-> fn, query |-> Some(query), algo |-> "", top_k |-> 0]
    /\ ret' = [invoked |-> fn]
                @@ Rank(fn, query, Val(INVERTED_INDEX), Val(CORPUS), Val(DOC_ID_MAP))
    /\ repeated' = FALSE
    /\ UNCHANGED <<LOADED, CORPUS, INVERTED_INDEX, DOC_ID_MAP, PID_TO_DOCID, hashOrder>>
    /\ UNCHANGED <<pc, frame, loads, builds>>

\* SearchEngine.search on the constructed engine, as the web handlers call it
EngineSearch(query, corpus_arg, algo, top_k) ==
    /\ LOADED
    /\ UNCHANGED analytics_data
    /\ call = NoCall
    /\ call' = [fn |-> "SearchEngine.search", query |-> query, algo |-> algo,
                top_k |-> top_k]
    /\ ret' \in SearchEngineSearch(query, corpus_arg, algo, top_k)
    /\ repeated' = FALSE
    /\ UNCHANGED <<LOADED, CORPUS, INVERTED_INDEX, DOC_ID_MAP, PID_TO_DOCID, hashOrder>>
    /\ UNCHANGED <<pc, frame, loads, builds>>

Queries == {None} \cup {Some(q) : q \in QueryStrings}
TopKs == 0..MaxTopK

\* the client is between calls
Idle == call = NoCall

Next ==
    \/ Idle /\ \E file \in Files : Construct(file)
    \/ Idle /\ LOADED /\ \E query \in Queries, algo \in Algos, top_k \in TopKs :
          SearchInCorpus(query, algo, top_k)
    \/ Idle /\ LOADED /\ \E fn \in RankFns, query \in QueryStrings : RankDirect(fn, query)
    \/ Idle /\ LOADED /\ \E query \in Queries, algo \in Algos, top_k \in TopKs :
          \E corpus_arg \in {None, CORPUS} :
             EngineSearch(query, corpus_arg, algo, top_k)
    \/ SearchAgain
    \/ Return

Spec == Init /\ [][Next]_vars

(***************************************************************************)
(* The three-product scenario: the engine is constructed on a file of      *)
(* three rows titled "red shoes", "blue shoes" and "red hat", and clients  *)
(* query it with up to two of the four words.                              *)
(***************************************************************************)
Red == <<"r", "e", "d">>
Shoes == <<"s", "h", "o", "e", "s">>
Blue == <<"b", "l", "u", "e">>
Hat == <<"h", "a", "t">>

\* the rows after clean_line: (title_tokens, desc_tokens) of P1, P2, P3
ScenarioFile ==
    << <<<<Red, Shoes>>, <<>>>>, <<<<Blue, Shoes>>, <<>>>>, <<<<Red, Hat>>, <<>>>> >>

ScenarioWords == {Red, Shoes, Blue, Hat}

\* the queries of one word and of two words separated by a blank
ScenarioQueries ==
    ScenarioWords \cup {w1 \o <<" ">> \o w2 : w1 \in ScenarioWords, w2 \in ScenarioWords}

\* the orders in which a hash table may hand out the doc ids 0, 1, 2
ScenarioHashOrders ==
    {p \in [1..3 -> 0..2] : \A i, j \in 1..3 : p[i] = p[j] => i = j}

ScenarioInit ==
    /\ LOADED = FALSE
    /\ CORPUS = None
    /\ INVERTED_INDEX = None
    /\ DOC_ID_MAP = None
    /\ PID_TO_DOCID = None
    /\ hashOrder \in ScenarioHashOrders
    /\ call = NoCall
    /\ ret = NoRet
    /\ repeated = FALSE
    /\ pc = [t \in Threads |-> "idle"]
    /\ frame = [t \in Threads |-> NoFrame]
    /\ loads = 0
    /\ builds = 0
    /\ analytics_data = AnalyticsData

ScenarioNext ==
    \/ Idle /\ ~LOADED /\ Construct(ScenarioFile)
    \/ Idle /\ LOADED /\ \E fn \in RankFns, query \in ScenarioQueries : RankDirect(fn, query)
    \/ Idle /\ LOADED /\ \E query \in ScenarioQueries, algo \in Algos, top_k \in {1, 3} :
          SearchInCorpus(Some(query), algo, top_k)
    \/ Return

ScenarioSpec == ScenarioInit /\ [][ScenarioNext]_vars

(***************************************************************************)
(* Concurrent searches. The engine is constructed once at process start;   *)
(* then every thread calls search_in_corpus or a ranking strategy on the   *)
(* shared corpus, index and doc_id_map. A call runs in steps (the ranking, *)
(* then the building of the records) between which other threads run.      *)
(***************************************************************************)
\* search_engine = SearchEngine() when the application module is loaded
Startup(file) ==
    /\ ~LOADED
    /\ UNCHANGED analytics_data
    /\ \A t \in Threads : pc[t] = "idle"
    /\ initialize(file)
    /\ UNCHANGED <<hashOrder, call, ret, repeated, pc, frame>>

\* the calls a thread makes: a strategy directly, or search_in_corpus
ThreadCalls ==
    {[fn |-> fn, algo |-> "", top_k |-> 0] : fn \in RankFns}
      \cup {[fn |-> "search_in_corpus", algo |-> algo, top_k |-> 1] :
               algo \in {"tfidf", "tfidf_cos", "bm25"}}

\* the queries of the threads: one term, two terms, blanks only
ThreadQueries == {<<"r">>, <<"r", " ", "S">>, <<" ">>}

\* thread t enters the call c with a query
T_Search(t, c, query) ==
    /\ LOADED
    /\ UNCHANGED analytics_data
    /\ pc[t] = "idle"
    /\ pc' = [pc EXCEPT ![t] = "rank"]
    /\ frame' = [frame EXCEPT ![t] = [NoFrame EXCEPT !.fn = c.fn, !.query = Some(query),
                                                     !.algo = c.algo, !.top_k = c.top_k]]
    /\ UNCHANGED <<LOADED, CORPUS, INVERTED_INDEX, DOC_ID_MAP, PID_TO_DOCID, hashOrder>>
    /\ UNCHANGED <<call, ret, repeated, loads, builds>>

\* what the ranking step of thread t computes from the shared structures
Ranking(t) ==
    IF frame[t].fn = "search_in_corpus"
    THEN IF Blank(frame[t].query)
         THEN [invoked |-> "none", raised |-> FALSE, value |-> <<>>]
         ELSE Dispatch(Val(frame[t].query), frame[t].algo, Val(CORPUS),
                       Val(INVERTED_INDEX), Val(DOC_ID_MAP))
    ELSE [invoked |-> frame[t].fn]
           @@ Rank(frame[t].fn, Val(frame[t].query), Val(INVERTED_INDEX), Val(CORPUS),
                   Val(DOC_ID_MAP))

\* a strategy returns its list; search_in_corpus goes on to build records
\* unless the query is blank or the strategy raised
RankingEnds(t, r) ==
    frame[t].fn # "search_in_corpus" \/ Blank(frame[t].query) \/ r.raised

\* mutant: postings are read with inverted_index[t], which on a defaultdict
\* inserts an empty list for a term that has none
MutT_RankSubscript(t) ==
    /\ pc[t] = "rank"
    /\ UNCHANGED analytics_data
    /\ LET r == Ranking(t)
           index == Val(INVERTED_INDEX)
           looked_up == Range(QueryTerms(Val(frame[t].query)))
       IN  /\ IF RankingEnds(t, r)
              THEN /\ pc' = [pc EXCEPT ![t] = "done"]
                   /\ frame' = [frame EXCEPT ![t].ret = r]
              ELSE /\ pc' = [pc EXCEPT ![t] = "materialize"]
                   /\ frame' = [frame EXCEPT ![t].local = Some(r.value),
                                             ![t].ret = [r EXCEPT !.value = <<>>]]
           /\ INVERTED_INDEX' = Some([term \in DOMAIN index \cup looked_up |->
                                        Get(index, term)])
    /\ UNCHANGED <<LOADED, CORPUS, DOC_ID_MAP, PID_TO_DOCID, hashOrder>>
    /\ UNCHANGED <<call, ret, repeated, loads, builds>>

\* thread t runs the query guard and the strategy: inverted_index.get(t, [])
\* reads the index and inserts nothing
T_Rank(t) ==
    /\ pc[t] = "rank"
    /\ UNCHANGED analytics_data
    /\ LET r == Ranking(t)
       IN  IF RankingEnds(t, r)
           THEN /\ pc' = [pc EXCEPT ![t] = "done"]
                /\ frame' = [frame EXCEPT ![t].ret = r]
           ELSE /\ pc' = [pc EXCEPT ![t] = "materialize"]
                /\ frame' = [frame EXCEPT ![t].local = Some(r.value),
                                          ![t].ret = [r EXCEPT !.value = <<>>]]
    /\ UNCHANGED <<LOADED, CORPUS, INVERTED_INDEX, DOC_ID_MAP, PID_TO_DOCID, hashOrder>>
    /\ UNCHANGED <<call, ret, repeated, loads, builds>>

\* thread t builds the records of ranked[:top_k] from corpus and doc_id_map
T_Materialize(t) ==
    /\ pc[t] = "materialize"
    /\ UNCHANGED analytics_data
    /\ LET kept == Truncate(Val(frame[t].local), frame[t].top_k)
       IN  frame' = [frame EXCEPT
                       ![t].local = None,
                       ![t].ret.value = [i \in 1..Len(kept) |->
                                           Materialize(kept[i], Val(CORPUS),
                                                       Val(DOC_ID_MAP))]]
    /\ pc' = [pc EXCEPT ![t] = "done"]
    /\ UNCHANGED <<LOADED, CORPUS, INVERTED_INDEX, DOC_ID_MAP, PID_TO_DOCID, hashOrder>>
    /\ UNCHANGED <<call, ret, repeated, loads, builds>>

\* the caller of thread t takes the returned value
T_Return(t) ==
    /\ pc[t] = "done"
    /\ UNCHANGED analytics_data
    /\ pc' = [pc EXCEPT ![t] = "idle"]
    /\ frame' = [frame EXCEPT ![t] = NoFrame]
    /\ UNCHANGED <<LOADED, CORPUS, INVERTED_INDEX, DOC_ID_MAP, PID_TO_DOCID, hashOrder>>
    /\ UNCHANGED <<call, ret, repeated, loads, builds>>

SearchersNext ==
    \/ ~LOADED /\ \E file \in Files : Startup(file)
    \/ LOADED /\ \E t \in Threads : pc[t] = "idle" /\
          \E c \in ThreadCalls, query \in ThreadQueries : T_Search(t, c, query)
    \/ \E t \in Threads : T_Rank(t)
    \/ \E t \in Threads : T_Materialize(t)
    \/ \E t \in Threads : T_Return(t)

SearchersSpec == Init /\ [][SearchersNext]_vars

(***************************************************************************)
(* Concurrent initialisation. Threads call initialize(corpus_path), or     *)
(* SearchEngine(corpus_path), which does nothing else. initialize takes no *)
(* lock: its test of _LOADED, the call of load_corpus, the call of         *)
(* create_inverted_index, each assignment to a global and the setting of   *)
(* _LOADED are steps between which other threads run.                      *)
(***************************************************************************)
\* the files at the paths the callers pass
InitFiles == {file \in Files : Len(file) <= 1}

\* thread t calls initialize (fn = "initialize") or SearchEngine.__init__
T_Initialize(t, fn, file) ==
    /\ pc[t] = "idle"
    /\ UNCHANGED analytics_data
    /\ pc' = [pc EXCEPT ![t] = "init_check"]
    /\ frame' = [frame EXCEPT ![t] = [NoFrame EXCEPT !.fn = fn, !.file = file]]
    /\ UNCHANGED <<LOADED, CORPUS, INVERTED_INDEX, DOC_ID_MAP, PID_TO_DOCID, hashOrder>>
    /\ UNCHANGED <<call, ret, repeated, loads, builds>>

\* if _LOADED: return
T_InitCheck(t) ==
    /\ pc[t] = "init_check"
    /\ UNCHANGED analytics_data
    /\ IF LOADED
       THEN /\ pc' = [pc EXCEPT ![t] = "idle"]
            /\ frame' = [frame EXCEPT ![t] = NoFrame]
       ELSE /\ pc' = [pc EXCEPT ![t] = "init_load"]
            /\ UNCHANGED frame
    /\ UNCHANGED <<LOADED, CORPUS, INVERTED_INDEX, DOC_ID_MAP, PID_TO_DOCID, hashOrder>>
    /\ UNCHANGED <<call, ret, repeated, loads, builds>>

\* _CORPUS = load_corpus(str(corpus_path))
T_InitLoad(t) ==
    /\ pc[t] = "init_load"
    /\ UNCHANGED analytics_data
    /\ CORPUS' = Some(load_corpus(frame[t].file))
    /\ loads' = loads + 1
    /\ pc' = [pc EXCEPT ![t] = "init_build"]
    /\ UNCHANGED <<LOADED, INVERTED_INDEX, DOC_ID_MAP, PID_TO_DOCID, hashOrder>>
    /\ UNCHANGED <<call, ret, repeated, frame, builds>>

\* create_inverted_index(_CORPUS): the global is read when the call is made
T_InitBuild(t) ==
    /\ pc[t] = "init_build"
    /\ UNCHANGED analytics_data
    /\ frame' = [frame EXCEPT ![t].local = Some(create_inverted_index(Val(CORPUS)))]
    /\ builds' = builds + 1
    /\ pc' = [pc EXCEPT ![t] = "init_store_index"]
    /\ UNCHANGED <<LOADED, CORPUS, INVERTED_INDEX, DOC_ID_MAP, PID_TO_DOCID, hashOrder>>
    /\ UNCHANGED <<call, ret, repeated, loads>>

\* _INVERTED_INDEX, ... = the first element of the returned tuple
T_InitStoreIndex(t) ==
    /\ pc[t] = "init_store_index"
    /\ UNCHANGED analytics_data
    /\ INVERTED_INDEX' = Some(Val(frame[t].local).inverted_index)
    /\ pc' = [pc EXCEPT ![t] = "init_store_map"]
    /\ UNCHANGED <<LOADED, CORPUS, DOC_ID_MAP, PID_TO_DOCID, hashOrder>>
    /\ UNCHANGED <<call, ret, repeated, frame, loads, builds>>

\* ..., _DOC_ID_MAP, ... = the second element
T_InitStoreMap(t) ==
    /\ pc[t] = "init_store_map"
    /\ UNCHANGED analytics_data
    /\ DOC_ID_MAP' = Some(Val(frame[t].local).doc_id_map)
    /\ pc' = [pc EXCEPT ![t] = "init_store_reverse"]
    /\ UNCHANGED <<LOADED, CORPUS, INVERTED_INDEX, PID_TO_DOCID, hashOrder>>
    /\ UNCHANGED <<call, ret, repeated, frame, loads, builds>>

\* ..., _PID_TO_DOCID = the third element
T_InitStoreReverse(t) ==
    /\ pc[t] = "init_store_reverse"
    /\ UNCHANGED analytics_data
    /\ PID_TO_DOCID' = Some(Val(frame[t].local).reverse_map)
    /\ pc' = [pc EXCEPT ![t] = "init_set_loaded"]
    /\ UNCHANGED <<LOADED, CORPUS, INVERTED_INDEX, DOC_ID_MAP, hashOrder>>
    /\ UNCHANGED <<call, ret, repeated, frame, loads, builds>>

\* _LOADED = True, and initialize returns
T_InitSetLoaded(t) ==
    /\ pc[t] = "init_set_loaded"
    /\ UNCHANGED analytics_data
    /\ LOADED' = TRUE
    /\ pc' = [pc EXCEPT ![t] = "idle"]
    /\ frame' = [frame EXCEPT ![t] = NoFrame]
    /\ UNCHANGED <<CORPUS, INVERTED_INDEX, DOC_ID_MAP, PID_TO_DOCID, hashOrder>>
    /\ UNCHANGED <<call, ret, repeated, loads, builds>>

InitNext ==
    \/ \E t \in Threads : pc[t] = "idle" /\
          \E fn \in {"initialize", "SearchEngine"}, file \in InitFiles :
             T_Initialize(t, fn, file)
    \/ \E t \in Threads : T_InitCheck(t)
    \/ \E t \in Threads : T_InitLoad(t)
    \/ \E t \in Threads : T_InitBuild(t)
    \/ \E t \in Threads : T_InitStoreIndex(t)
    \/ \E t \in Threads : T_InitStoreMap(t)
    \/ \E t \in Threads : T_InitStoreReverse(t)
    \/ \E t \in Threads : T_InitSetLoaded(t)

InitSpec == Init /\ [][InitNext]_vars

(***************************************************************************)
(* Documents without token fields. A caller indexes a corpus of documents  *)
(* it built itself, in which title_tokens and desc_tokens may each be a    *)
(* list, None, or not an attribute of the object at all, and then calls    *)
(* the ranking strategies with that corpus, index and doc_id_map. The      *)
(* variables CORPUS, INVERTED_INDEX, DOC_ID_MAP and PID_TO_DOCID hold the  *)
(* caller's structures here, and LOADED says that they are built.          *)
(***************************************************************************)
\* the values a token field may have: "list", "none" or "missing"
FieldValues(n) ==
    {[kind |-> "list", tokens |-> tokens] : tokens \in BoundedSeq(DocTerms, n)}
      \cup {[kind |-> "none", tokens |-> <<>>], [kind |-> "missing", tokens |-> <<>>]}

\* the document object with these two fields
ObjectWith(pid, title, desc) ==
    LET names == {<<"title_tokens", title.kind>>, <<"desc_tokens", desc.kind>>}
    IN  [Document(pid, title.tokens, desc.tokens) EXCEPT
            !.none_fields = {f[1] : f \in {g \in names : g[2] = "none"}},
            !.missing_fields = {f[1] : f \in {g \in names : g[2] = "missing"}}]

\* the corpora of up to MaxDocs such documents
FieldCorpora ==
    UNION {{[i \in 1..n |-> ObjectWith(PidOfRow[i], fields[i][1], fields[i][2])] :
              fields \in [1..n -> FieldValues(MaxTitleLen) \X FieldValues(MaxDescLen)]} :
           n \in 0..MaxDocs}

\* inverted_index, doc_id_map, reverse_map = create_inverted_index(corpus)
IndexCorpus(corpus) ==
    /\ call = NoCall
    /\ UNCHANGED analytics_data
    /\ LET built == create_inverted_index(corpus)
       IN  /\ CORPUS' = Some(corpus)
           /\ INVERTED_INDEX' = Some(built.inverted_index)
           /\ DOC_ID_MAP' = Some(built.doc_id_map)
           /\ PID_TO_DOCID' = Some(built.reverse_map)
    /\ LOADED' = TRUE
    /\ call' = [NoCall EXCEPT !.fn = "create_inverted_index"]
    /\ ret' = NoRet
    /\ repeated' = FALSE
    /\ UNCHANGED <<hashOrder, pc, frame, loads, builds>>

FieldNext ==
    \/ Idle /\ ~LOADED /\ \E corpus \in FieldCorpora : IndexCorpus(corpus)
    \/ Idle /\ LOADED /\ \E fn \in RankFns, query \in QueryStrings : RankDirect(fn, query)
    \/ Return

FieldSpec == Init /\ [][FieldNext]_vars

(***************************************************************************)
(* Searches during initialisation. Threads call initialize(corpus_path)    *)
(* and SearchEngine.search with no lock between them. search reads _CORPUS,*)
(* tests _INVERTED_INDEX and _DOC_ID_MAP for None, and reads the two       *)
(* globals again when it builds the arguments of search_in_corpus; each    *)
(* read of a global is a step between which other threads run.             *)
(***************************************************************************)
\* the files at the paths the callers pass: no row, a row with a title token
\* "r", a row with a title token "s"
PublishFiles ==
    {<<>>, <<<<<<<<"r">>>>, <<>>>>>>, <<<<<<<<"s">>>>, <<>>>>>>}

\* the queries and algorithm names of the searches
PublishQueries == {<<"r">>, <<"s">>}
PublishAlgos == {"tfidf", "tfidf_cos", "bm25"}

\* the pids of a corpus
Pids(corpus) == {corpus[i].pid : i \in 1..Len(corpus)}

\* a strategy or the building of the records raises on structures that do
\* not come from one corpus: math.log(0 / df) (ValueError), corpus[pid],
\* doc_id_map[doc_id] or doc_lengths[doc_id] on a missing key (KeyError)
RaisesOnForeign(query, algo, corpus, inverted_index, doc_id_map, top_k) ==
    LET N == NumDocs(doc_id_map)
        query_terms == QueryTerms(query)
        log0 == N = 0 /\ \E i \in 1..Len(query_terms) :
                            Df(inverted_index, query_terms[i]) > 0
        no_doc == \E doc_id \in DOMAIN doc_id_map : doc_id_map[doc_id] \notin Pids(corpus)
        Scored(i) == \A j \in 1..i : Get(inverted_index, query_terms[j]) # <<>>
        no_length == \E i \in 1..Len(query_terms) :
                        /\ Scored(i)
                        /\ DocsWith(Get(inverted_index, query_terms[i]))
                              \ DOMAIN doc_id_map # {}
        posted == UNION {DocsWith(Get(inverted_index, query_terms[i])) :
                            i \in 1..Len(query_terms)}
    IN  IF algo = "tfidf"
        THEN \/ log0
             \/ /\ top_k > 0
                /\ \/ posted \ DOMAIN doc_id_map # {}
                   \/ \E doc_id \in posted \cap DOMAIN doc_id_map :
                         doc_id_map[doc_id] \notin Pids(corpus)
        ELSE IF algo = "tfidf_cos" THEN log0 \/ no_doc
        ELSE IF algo = "bm25" THEN no_doc \/ no_length
        ELSE FALSE

\* thread t calls SearchEngine.search(query, search_id, None, algo, top_k)
T_EngineSearch(t, query, algo, top_k) ==
    /\ pc[t] = "idle"
    /\ UNCHANGED analytics_data
    /\ pc' = [pc EXCEPT ![t] = "es_corpus"]
    /\ frame' = [frame EXCEPT ![t] = [NoFrame EXCEPT !.fn = "SearchEngine.search",
                                                     !.query = Some(query),
                                                     !.algo = algo, !.top_k = top_k]]
    /\ UNCHANGED <<LOADED, CORPUS, INVERTED_INDEX, DOC_ID_MAP, PID_TO_DOCID, hashOrder>>
    /\ UNCHANGED <<call, ret, repeated, loads, builds>>

\* if corpus is None: corpus = _CORPUS
T_ReadCorpus(t) ==
    /\ pc[t] = "es_corpus"
    /\ UNCHANGED analytics_data
    /\ frame' = [frame EXCEPT ![t].local =
                    Some([corpus |-> CORPUS, inverted_index |-> None,
                          doc_id_map |-> None])]
    /\ pc' = [pc EXCEPT ![t] = "es_check"]
    /\ UNCHANGED <<LOADED, CORPUS, INVERTED_INDEX, DOC_ID_MAP, PID_TO_DOCID, hashOrder>>
    /\ UNCHANGED <<call, ret, repeated, loads, builds>>

\* if _INVERTED_INDEX is None or _DOC_ID_MAP is None: return dummy_search(...)
T_CheckIndex(t) ==
    /\ pc[t] = "es_check"
    /\ UNCHANGED analytics_data
    /\ IF IsNone(INVERTED_INDEX) \/ IsNone(DOC_ID_MAP)
       THEN /\ pc' = [pc EXCEPT ![t] = "done"]
            /\ LET corpus == Val(frame[t].local).corpus
               IN  IF IsNone(corpus)
                   THEN frame' = [frame EXCEPT ![t].local = None,
                                     ![t].ret = [invoked |-> "dummy_search",
                                                 raised |-> TRUE, value |-> <<>>]]
                   ELSE \E v \in DummyResults(Val(corpus), frame[t].top_k) :
                           frame' = [frame EXCEPT ![t].local = None,
                                        ![t].ret = [invoked |-> "dummy_search",
                                                    raised |-> FALSE, value |-> v]]
       ELSE /\ pc' = [pc EXCEPT ![t] = "es_load_index"]
            /\ UNCHANGED frame
    /\ UNCHANGED <<LOADED, CORPUS, INVERTED_INDEX, DOC_ID_MAP, PID_TO_DOCID, hashOrder>>
    /\ UNCHANGED <<call, ret, repeated, loads, builds>>

\* the argument _INVERTED_INDEX of search_in_corpus(...) is read
T_LoadIndex(t) ==
    /\ pc[t] = "es_load_index"
    /\ UNCHANGED analytics_data
    /\ frame' = [frame EXCEPT ![t].local = Some([Val(@) EXCEPT
                                                  !.inverted_index = INVERTED_INDEX])]
    /\ pc' = [pc EXCEPT ![t] = "es_load_map"]
    /\ UNCHANGED <<LOADED, CORPUS, INVERTED_INDEX, DOC_ID_MAP, PID_TO_DOCID, hashOrder>>
    /\ UNCHANGED <<call, ret, repeated, loads, builds>>

\* the argument _DOC_ID_MAP is read: search is about to call search_in_corpus
T_LoadMap(t) ==
    /\ pc[t] = "es_load_map"
    /\ UNCHANGED analytics_data
    /\ frame' = [frame EXCEPT ![t].local = Some([Val(@) EXCEPT
                                                  !.doc_id_map = DOC_ID_MAP])]
    /\ pc' = [pc EXCEPT ![t] = "es_call"]
    /\ UNCHANGED <<LOADED, CORPUS, INVERTED_INDEX, DOC_ID_MAP, PID_TO_DOCID, hashOrder>>
    /\ UNCHANGED <<call, ret, repeated, loads, builds>>

\* results = search_in_corpus(...) on the values read, then the ResultItems
T_CallSearch(t) ==
    /\ pc[t] = "es_call"
    /\ UNCHANGED analytics_data
    /\ LET l == Val(frame[t].local)
           query == Val(frame[t].query)
           \* corpus[pid] raises on None (TypeError) as on a corpus without pid
           corpus == IF IsNone(l.corpus) THEN <<>> ELSE Val(l.corpus)
       IN  IF RaisesOnForeign(query, frame[t].algo, corpus,
                              Val(l.inverted_index), Val(l.doc_id_map),
                              frame[t].top_k)
           THEN frame' = [frame EXCEPT ![t].local = None,
                             ![t].ret = [invoked |-> "search_in_corpus",
                                         raised |-> TRUE, value |-> <<>>]]
           ELSE LET r == search_in_corpus(frame[t].query, frame[t].algo,
                                          corpus, Val(l.inverted_index),
                                          Val(l.doc_id_map), frame[t].top_k)
                IN  frame' = [frame EXCEPT ![t].local = None,
                                 ![t].ret = [r EXCEPT !.value =
                                               [i \in 1..Len(r.value) |->
                                                   ResultItem(r.value[i])]]]
    /\ pc' = [pc EXCEPT ![t] = "done"]
    /\ UNCHANGED <<LOADED, CORPUS, INVERTED_INDEX, DOC_ID_MAP, PID_TO_DOCID, hashOrder>>
    /\ UNCHANGED <<call, ret, repeated, loads, builds>>

PublishNext ==
    \/ \E t \in Threads : pc[t] = "idle" /\
          \E file \in PublishFiles : T_Initialize(t, "initialize", file)
    \/ \E t \in Threads : T_InitCheck(t)
    \/ \E t \in Threads : T_InitLoad(t)
    \/ \E t \in Threads : T_InitBuild(t)
    \/ \E t \in Threads : T_InitStoreIndex(t)
    \/ \E t \in Threads : T_InitStoreMap(t)
    \/ \E t \in Threads : T_InitStoreReverse(t)
    \/ \E t \in Threads : T_InitSetLoaded(t)
    \/ \E t \in Threads : pc[t] = "idle" /\
          \E query \in PublishQueries, algo \in PublishAlgos :
             T_EngineSearch(t, query, algo, 1)
    \/ \E t \in Threads : T_ReadCorpus(t)
    \/ \E t \in Threads : T_CheckIndex(t)
    \/ \E t \in Threads : T_LoadIndex(t)
    \/ \E t \in Threads : T_LoadMap(t)
    \/ \E t \in Threads : T_CallSearch(t)
    \/ \E t \in Threads : T_Return(t)

PublishSpec == Init /\ [][PublishNext]_vars

(***************************************************************************)
(* Set iteration. The language leaves the order in which a set hands out   *)
(* its elements to the interpreter: it follows the slots of the hash table *)
(* in one, the insertions in another. A client calls a strategy on the     *)
(* loaded corpus and makes the same call once more on the same corpus,     *)
(* index and doc_id_map; in between the structures may have moved to an    *)
(* interpreter whose sets iterate in another order.                        *)
(***************************************************************************)
\* the structures move to an interpreter with the set iteration order
Rehash(order) ==
    /\ call.fn \in RankFns
    /\ UNCHANGED analytics_data
    /\ ~repeated
    /\ order # hashOrder
    /\ hashOrder' = order
    /\ UNCHANGED <<LOADED, CORPUS, INVERTED_INDEX, DOC_ID_MAP, PID_TO_DOCID>>
    /\ UNCHANGED <<call, ret, repeated, pc, frame, loads, builds>>

\* the same call of a strategy, made a second time
RankAgain ==
    /\ call.fn \in RankFns
    /\ UNCHANGED analytics_data
    /\ ~repeated
    /\ call' = call
    /\ ret' = [invoked |-> call.fn]
                @@ Rank(call.fn, Val(call.query), Val(INVERTED_INDEX), Val(CORPUS),
                        Val(DOC_ID_MAP))
    /\ repeated' = TRUE
    /\ UNCHANGED <<LOADED, CORPUS, INVERTED_INDEX, DOC_ID_MAP, PID_TO_DOCID, hashOrder>>
    /\ UNCHANGED <<pc, frame, loads, builds>>

IterationNext ==
    \/ Idle /\ ~LOADED /\ \E file \in Files : Construct(file)
    \/ Idle /\ LOADED /\ \E fn \in RankFns, query \in QueryStrings : RankDirect(fn, query)
    \/ \E order \in HashOrders : Rehash(order)
    \/ RankAgain
    \/ Return

IterationSpec == Init /\ [][IterationNext]_vars

(***************************************************************************)
(* Analytics. The routes of web_app call the one AnalyticsData object of   *)
(* the process: a session is started, queries and clicks are tracked,      *)
(* sessions are ended and documents are viewed, in any order.              *)
(***************************************************************************)
\* the session ids a caller may pass: none, a known one, or 'anonymous', which
\* search_form_post passes for a cookie session that holds no session_id
SessionArgs ==
    {None, Some(<<"anonymous", 0>>)} \cup {Some(s) : s \in DOMAIN analytics_data.sessions}

\* the query ids a request may carry: none, a recorded one, or one never recorded
QueryArgs ==
    {None, Some(<<"query", 0>>)} \cup {Some(q) : q \in DOMAIN analytics_data.queries}

\* the pids a request may carry: none, two of the corpus, one that is not
PidArgs == {None, Some("P1"), Some("P2"), Some("P9")}

\* the /doc_details requests that went past the pid tests: each counted one view
\* beside the click it may have tracked
Views ==
    LET RECURSIVE Total(_, _)
        Total(d, keys) ==
            IF keys = {} THEN 0
            ELSE LET k == CHOOSE x \in keys : TRUE
                 IN  d[k] + Total(d, keys \ {k})
    IN  Total(analytics_data.fact_clicks, DOMAIN analytics_data.fact_clicks)
        - Cardinality(DOMAIN analytics_data.clicks)

StartSession(user_agent) ==
    /\ Cardinality(DOMAIN analytics_data.sessions) < MaxSessions
    /\ analytics_data' = start_session(analytics_data, user_agent).self
    /\ UNCHANGED engineVars

TrackQuery(session_id, query_text) ==
    /\ Cardinality(DOMAIN analytics_data.queries) < MaxQueries
    /\ \/ Cardinality(DOMAIN analytics_data.sessions) < MaxSessions
       \/ ~IsNone(session_id) /\ Val(session_id) \in DOMAIN analytics_data.sessions
    /\ analytics_data' = track_query(analytics_data, session_id, query_text).self
    /\ UNCHANGED engineVars

TrackClick(query_id, doc_id, session_id) ==
    /\ Cardinality(DOMAIN analytics_data.clicks) < MaxClicks
    /\ analytics_data' = track_click(analytics_data, query_id, doc_id, session_id).self
    /\ UNCHANGED engineVars

EndSession(session_id) ==
    /\ analytics_data' = end_session(analytics_data, session_id)
    /\ UNCHANGED engineVars

DocDetails(pid, query_id) ==
    /\ Views < MaxViews
    /\ Truthy(query_id) => Cardinality(DOMAIN analytics_data.clicks) < MaxClicks
    /\ analytics_data' = doc_details(analytics_data, pid, query_id)
    /\ UNCHANGED engineVars

AnalyticsNext ==
    \/ StartSession(Some("Mozilla/5.0"))
    \/ \E session_id \in SessionArgs, query_text \in {"r"} :
          TrackQuery(session_id, query_text)
    \/ \E query_id \in QueryArgs, doc_id \in {"P1", "P2"}, session_id \in SessionArgs :
          Truthy(query_id) /\ TrackClick(Val(query_id), doc_id, session_id)
    \/ \E session_id \in SessionArgs :
          ~IsNone(session_id) /\ EndSession(Val(session_id))
    \/ \E pid \in PidArgs, query_id \in QueryArgs : DocDetails(pid, query_id)

AnalyticsSpec == Init /\ [][AnalyticsNext]_vars

(***************************************************************************)
(* Vocabulary of the properties, stated on the corpus itself.              *)
(***************************************************************************)
\* the token stream of a document: its title tokens, then its description tokens
Stream(doc) == doc.title_tokens \o doc.desc_tokens

\* the ascending list of the 0-based offsets of t in a stream
Offsets(stream, t) ==
    LET Hit(p) == stream[p + 1] = t
    IN  SelectSeq([i \in 1..Len(stream) |-> i - 1], Hit)

\* the doc ids of the loaded corpus
DocIds == 0..(Len(Val(CORPUS)) - 1)

\* the document with a doc id
DocAt(doc_id) == Val(CORPUS)[doc_id + 1]

\* t occurs in the document doc_id
Contains(doc_id, t) == \E p \in 1..Len(Stream(DocAt(doc_id))) : Stream(DocAt(doc_id))[p] = t

\* t occurs in no document of the corpus
Absent(t) == \A d \in DocIds : ~Contains(d, t)

\* the query of a direct call to a strategy, and its terms
CalledRank == call.fn \in RankFns
CallTerms == QueryTerms(Val(call.query))

\* a query that is None, empty or made of blanks only
BlankQuery(query) == IsNone(query) \/ \A i \in 1..Len(Val(query)) : Val(query)[i] = " "

\* the doc ids of a ranked list
RankedDocs(ranked) == {ranked[i].doc_id : i \in 1..Len(ranked)}

\* the display record of a ranked (doc_id, score) pair, read off the corpus
RecordOf(entry) ==
    [pid |-> DocAt(entry.doc_id).pid,
     title |-> DocAt(entry.doc_id).title,
     description |-> DocAt(entry.doc_id).description,
     selling_price |-> DocAt(entry.doc_id).selling_price,
     discount |-> DocAt(entry.doc_id).discount,
     average_rating |-> DocAt(entry.doc_id).average_rating,
     url |-> DocAt(entry.doc_id).url,
     score |-> entry.score]

\* the records of the first k entries of a ranked list
TopRecords(ranked, k) == [i \in 1..Min(k, Len(ranked)) |-> RecordOf(ranked[i])]

\* the result item made of a display record
ItemOf(r) ==
    [pid |-> r.pid, title |-> r.title, description |-> r.description,
     url |-> r.url, ranking |-> r.score]

\* what the strategy fn returns for the query of the call in progress
Ranked(fn) ==
    Rank(fn, Val(call.query), Val(INVERTED_INDEX), Val(CORPUS), Val(DOC_ID_MAP)).value

\* a search under the name algo returns the materialised top_k of strategy fn
Dispatches(algo, fn) ==
    /\ (call.fn = "search_in_corpus" /\ call.algo = algo /\ ~BlankQuery(call.query))
          => /\ ~ret.raised
             /\ ret.value = TopRecords(Ranked(fn), call.top_k)
    /\ (call.fn = "SearchEngine.search" /\ call.algo = algo /\ ~BlankQuery(call.query))
          => /\ ~ret.raised
             /\ ret.value =
                  [i \in 1..Min(call.top_k, Len(Ranked(fn))) |->
                      ItemOf(RecordOf(Ranked(fn)[i]))]

\* terms joined by single blanks
RECURSIVE Join(_)
Join(terms) ==
    IF terms = <<>> THEN <<>>
    ELSE IF Len(terms) = 1 THEN terms[1]
    ELSE terms[1] \o <<" ">> \o Join(Tail(terms))

(***************************************************************************)
(* C1: after create_inverted_index, every term t of every document d has a *)
(* posting for d whose positions are exactly the ascending 0-based offsets *)
(* of t in d's stream (title tokens, then description tokens), and no      *)
(* posting exists for a term that does not occur in its document.          *)
(***************************************************************************)
C1_IndexCorrect ==
    LOADED =>
        LET index == Val(INVERTED_INDEX)
        IN  /\ \A d \in DocIds : \A p \in 1..Len(Stream(DocAt(d))) :
                 LET t == Stream(DocAt(d))[p]
                 IN  /\ t \in DOMAIN index
                     /\ \E i \in 1..Len(index[t]) :
                          /\ index[t][i].doc_id = d
                          /\ index[t][i].positions = Offsets(Stream(DocAt(d)), t)
            /\ \A t \in DOMAIN index : \A i \in 1..Len(index[t]) :
                 /\ index[t][i].doc_id \in DocIds
                 /\ Contains(index[t][i].doc_id, t)

\* an index over two documents in which a term occurs twice in the second
\* document, once in its title and once in its description
C1_Witness ==
    /\ LOADED
    /\ Len(Val(CORPUS)) = 2
    /\ \E t \in DOMAIN Val(INVERTED_INDEX) :
         \E i \in 1..Len(Val(INVERTED_INDEX)[t]) :
            /\ Val(INVERTED_INDEX)[t][i].doc_id = 1
            /\ Val(INVERTED_INDEX)[t][i].positions = <<0, 1>>

(***************************************************************************)
(* C2: for a query with at least one term, rank_query_tf_idf_cosine and    *)
(* rank_query_bm25 return exactly the documents that contain every query   *)
(* term (AND semantics, no fallback to OR).                                *)
(***************************************************************************)
C2_AndSemantics ==
    (/\ call.fn \in {"rank_query_tf_idf_cosine", "rank_query_bm25"}
     /\ CallTerms # <<>>)
    => /\ ~ret.raised
       /\ RankedDocs(ret.value) =
            {d \in DocIds : \A i \in 1..Len(CallTerms) : Contains(d, CallTerms[i])}

\* a two-term BM25 query: one document holds both terms and is returned, the
\* other holds only one of them and is not
C2_Witness ==
    /\ call.fn = "rank_query_bm25"
    /\ Len(CallTerms) = 2 /\ CallTerms[1] # CallTerms[2]
    /\ Len(ret.value) = 1
    /\ \E d \in DocIds : d \notin RankedDocs(ret.value) /\ Contains(d, CallTerms[1])

(***************************************************************************)
(* C3: rank_query_tf_idf returns an entry for a document if and only if    *)
(* the document contains at least one query term (OR semantics), and each  *)
(* such document exactly once; a document matching no term has no entry.   *)
(***************************************************************************)
C3_OrSemantics ==
    call.fn = "rank_query_tf_idf"
    => /\ ~ret.raised
       /\ RankedDocs(ret.value) =
            {d \in DocIds : \E i \in 1..Len(CallTerms) : Contains(d, CallTerms[i])}
       /\ \A i, j \in 1..Len(ret.value) :
            ret.value[i].doc_id = ret.value[j].doc_id => i = j

\* a TF-IDF query whose term occurs in both documents: idf is 0, and both
\* documents are still returned, with score 0
C3_Witness ==
    /\ call.fn = "rank_query_tf_idf"
    /\ Len(ret.value) = 2
    /\ \A i \in 1..2 : ret.value[i].score = 0

(***************************************************************************)
(* C4: for a query with a term that occurs in no document, no strategy     *)
(* raises; rank_query_tf_idf gives the term idf = 0 and returns the ranked *)
(* list of the query without its absent terms; rank_query_tf_idf_cosine    *)
(* and rank_query_bm25 return an empty list whatever the other terms match.*)
(***************************************************************************)
C4_AbsentTerm ==
    (CalledRank /\ \E i \in 1..Len(CallTerms) : Absent(CallTerms[i]))
    => /\ ~ret.raised
       /\ call.fn = "rank_query_tf_idf" =>
            LET Present(t) == ~Absent(t)
                N == Len(Val(CORPUS))
            IN  /\ \A i \in 1..Len(CallTerms) :
                     Absent(CallTerms[i]) =>
                        IdfTfIdf(N, Df(Val(INVERTED_INDEX), CallTerms[i])) = 0
                /\ ret.value =
                     rank_query_tf_idf(Join(SelectSeq(CallTerms, Present)),
                                       Val(INVERTED_INDEX), Val(CORPUS),
                                       Val(DOC_ID_MAP)).value
       /\ call.fn # "rank_query_tf_idf" => ret.value = <<>>

\* a cosine query of two terms, one absent from the corpus and one that
\* occurs in a document: nothing is returned
C4_Witness ==
    /\ call.fn = "rank_query_tf_idf_cosine"
    /\ Len(CallTerms) = 2
    /\ Absent(CallTerms[1])
    /\ \E d \in DocIds : Contains(d, CallTerms[2])
    /\ ret.value = <<>> /\ ~ret.raised

(***************************************************************************)
(* C5: search_in_corpus with top_k = k >= 0 returns at most k records, the *)
(* first k entries of the strategy's ranked list, and no entry left out    *)
(* has a strictly higher score than an entry returned; SearchEngine.search *)
(* with top_k = k returns at most k items.                                 *)
(***************************************************************************)
C5_TopK ==
    /\ (call.fn = "search_in_corpus" /\ ~BlankQuery(call.query)) =>
          LET ranked == Dispatch(Val(call.query), call.algo, Val(CORPUS),
                                 Val(INVERTED_INDEX), Val(DOC_ID_MAP)).value
              n == Len(ret.value)
          IN  /\ n <= call.top_k
              /\ n = Min(call.top_k, Len(ranked))
              /\ \A i \in 1..n :
                   /\ ret.value[i].pid = Val(DOC_ID_MAP)[ranked[i].doc_id]
                   /\ ret.value[i].score = ranked[i].score
              /\ \A j \in (n + 1)..Len(ranked) : \A i \in 1..n :
                   ranked[j].score <= ret.value[i].score
    /\ call.fn = "SearchEngine.search" => Len(ret.value) <= call.top_k

\* top_k = 1 with two candidates: the one kept has the strictly higher score
C5_Witness ==
    /\ call.fn = "search_in_corpus"
    /\ call.top_k = 1
    /\ Len(ret.value) = 1
    /\ LET ranked == Dispatch(Val(call.query), call.algo, Val(CORPUS),
                              Val(INVERTED_INDEX), Val(DOC_ID_MAP)).value
       IN  Len(ranked) = 2 /\ ranked[2].score < ret.value[1].score

(***************************************************************************)
(* C6: the list returned by each ranking strategy, and the record list     *)
(* returned by search_in_corpus, is sorted by score in non-increasing      *)
(* order and holds no document twice.                                      *)
(***************************************************************************)
C6_SortedUnique ==
    /\ CalledRank =>
          \A i, j \in 1..Len(ret.value) :
             i < j => /\ ret.value[i].score >= ret.value[j].score
                      /\ ret.value[i].doc_id # ret.value[j].doc_id
    /\ call.fn = "search_in_corpus" =>
          \A i, j \in 1..Len(ret.value) :
             i < j => /\ ret.value[i].score >= ret.value[j].score
                      /\ ret.value[i].pid # ret.value[j].pid

\* a TF-IDF ranking in which the second document of the corpus outranks the
\* first, although the first was accumulated first
C6_Witness ==
    /\ call.fn = "rank_query_tf_idf"
    /\ Len(ret.value) = 2
    /\ ret.value[1].doc_id = 1 /\ ret.value[2].doc_id = 0
    /\ ret.value[1].score > ret.value[2].score
    /\ Contains(0, CallTerms[1])

C8_BlankQuery ==
    (call.fn = "search_in_corpus" /\ BlankQuery(call.query))
    => ret.value = <<>> /\ ~ret.raised /\ ret.invoked = "none"

\* a query of blanks only, sent to BM25 on a corpus of two documents
C8_Witness ==
    /\ call.fn = "search_in_corpus"
    /\ ~IsNone(call.query) /\ Len(Val(call.query)) >= 2 /\ BlankQuery(call.query)
    /\ call.algo = "bm25" /\ call.top_k = 2
    /\ Len(Val(CORPUS)) = 2
    /\ ret.value = <<>>

(***************************************************************************)
(* C9: each ranking strategy, called directly with an empty or blank query *)
(* on a non-empty corpus, returns an empty result.                         *)
(***************************************************************************)
C9_DirectBlankQueryEmpty ==
    (CalledRank /\ BlankQuery(call.query) /\ Len(Val(CORPUS)) >= 1)
    => ret.value = <<>>

(***************************************************************************)
(* C10: search_in_corpus with an algorithm name that is none of the        *)
(* recognised ones returns an empty list and does not raise.               *)
(***************************************************************************)
C10_UnknownAlgo ==
    (call.fn = "search_in_corpus" /\ call.algo \notin {"tfidf", "tfidf_cos", "bm25"})
    => ret.value = <<>> /\ ~ret.raised

\* the unknown name "tfidf_cosine" with a query whose term occurs in a
\* document, which TF-IDF would return
C10_Witness ==
    /\ call.fn = "search_in_corpus"
    /\ call.algo = "tfidf_cosine"
    /\ call.top_k >= 1
    /\ ~BlankQuery(call.query)
    /\ \E d \in DocIds : Contains(d, QueryTerms(Val(call.query))[1])
    /\ ret.value = <<>>

(***************************************************************************)
(* C11 as stated: for a non-blank query, a search under the name "tfidf"   *)
(* returns the materialised top_k of rank_query_tf_idf, under the name     *)
(* "tfidf_cosine" that of rank_query_tf_idf_cosine, and under the name     *)
(* "bm25" that of rank_query_bm25.                                         *)
(***************************************************************************)
C11_DispatchSpecNames ==
    /\ Dispatches("tfidf", "rank_query_tf_idf")
    /\ Dispatches("tfidf_cosine", "rank_query_tf_idf_cosine")
    /\ Dispatches("bm25", "rank_query_bm25")

(***************************************************************************)
(* C11 amended: for a non-blank query, a search under the name "tfidf"     *)
(* returns the materialised top_k of rank_query_tf_idf, under the name     *)
(* "tfidf_cos" that of rank_query_tf_idf_cosine, and under the name "bm25" *)
(* that of rank_query_bm25, both through search_in_corpus and through      *)
(* SearchEngine.search.                                                    *)
(***************************************************************************)
C11_DispatchCodeNames ==
    /\ Dispatches("tfidf", "rank_query_tf_idf")
    /\ Dispatches("tfidf_cos", "rank_query_tf_idf_cosine")
    /\ Dispatches("bm25", "rank_query_bm25")

\* a two-term search under "bm25" through the facade: one document holds
\* both terms and is returned with a positive score, the other holds one
C11_Witness ==
    /\ call.fn = "SearchEngine.search"
    /\ call.algo = "bm25"
    /\ call.top_k = 2
    /\ ~BlankQuery(call.query)
    /\ Len(QueryTerms(Val(call.query))) = 2
    /\ Len(Val(CORPUS)) = 2
    /\ Len(ret.value) = 1
    /\ ret.value[1].ranking > 0

(***************************************************************************)
(* C12: on the corpus P1 = [red, shoes], P2 = [blue, shoes], P3 = [red,    *)
(* hat] with the query "red shoes", rank_query_tf_idf returns P1, P2 and   *)
(* P3 with P1 first and its score strictly greater than those of P2 and    *)
(* P3, and rank_query_bm25 returns exactly [P1].                           *)
(***************************************************************************)
C12_RedShoes ==
    LET pid(i) == Val(DOC_ID_MAP)[ret.value[i].doc_id]
    IN  /\ (call.fn = "rank_query_tf_idf" /\ call.query = Some(Red \o <<" ">> \o Shoes))
              => /\ ~ret.raised
                 /\ Len(ret.value) = 3
                 /\ {pid(i) : i \in 1..3} = {"P1", "P2", "P3"}
                 /\ pid(1) = "P1"
                 /\ ret.value[1].score > ret.value[2].score
                 /\ ret.value[1].score > ret.value[3].score
        /\ (call.fn = "rank_query_bm25" /\ call.query = Some(Red \o <<" ">> \o Shoes))
              => /\ ~ret.raised
                 /\ Len(ret.value) = 1
                 /\ pid(1) = "P1"

\* rank_query_tf_idf has answered "red shoes" on the three products
C12_Witness ==
    /\ call.fn = "rank_query_tf_idf"
    /\ call.query = Some(Red \o <<" ">> \o Shoes)
    /\ [i \in 1..Len(Val(CORPUS)) |-> Val(CORPUS)[i].title_tokens]
          = <<<<Red, Shoes>>, <<Blue, Shoes>>, <<Red, Hat>>>>
    /\ Len(ret.value) = 3
    /\ ret.value[2].score > 0

(***************************************************************************)
(* C13: for a corpus of N documents, doc_id_map and reverse_map have N     *)
(* entries each, doc_id_map is defined on 0..N-1, reverse_map on the pids  *)
(* of the corpus, reverse_map[doc_id_map[i]] = i for every doc id i and    *)
(* doc_id_map[reverse_map[p]] = p for every pid p.                         *)
(***************************************************************************)
C13_MutualInverses ==
    LOADED =>
        LET doc_id_map == Val(DOC_ID_MAP)
            reverse_map == Val(PID_TO_DOCID)
            N == Len(Val(CORPUS))
        IN  /\ DOMAIN doc_id_map = 0..(N - 1)
            /\ DOMAIN reverse_map = {Val(CORPUS)[i].pid : i \in 1..N}
            /\ Cardinality(DOMAIN doc_id_map) = N
            /\ Cardinality(DOMAIN reverse_map) = N
            /\ \A i \in DOMAIN doc_id_map :
                  /\ doc_id_map[i] \in DOMAIN reverse_map
                  /\ reverse_map[doc_id_map[i]] = i
            /\ \A p \in DOMAIN reverse_map :
                  /\ reverse_map[p] \in DOMAIN doc_id_map
                  /\ doc_id_map[reverse_map[p]] = p

\* the maps of a corpus of two documents: P2 is document 1
C13_Witness ==
    /\ LOADED
    /\ Len(Val(CORPUS)) = 2
    /\ Val(DOC_ID_MAP)[1] = "P2"
    /\ Val(PID_TO_DOCID)["P2"] = 1

(***************************************************************************)
(* C14: within every term's posting list each doc_id appears at most once, *)
(* also when the term occurs several times in the document or in both its  *)
(* title and its description.                                              *)
(***************************************************************************)
C14_OnePostingPerDoc ==
    LOADED =>
        \A t \in DOMAIN Val(INVERTED_INDEX) :
            \A i, j \in 1..Len(Val(INVERTED_INDEX)[t]) :
                Val(INVERTED_INDEX)[t][i].doc_id = Val(INVERTED_INDEX)[t][j].doc_id
                    => i = j

\* a term in the title and in the description of the first document and in
\* the second document: two postings, the first with both positions
C14_Witness ==
    /\ LOADED
    /\ \E t \in DOMAIN Val(INVERTED_INDEX) :
          /\ Len(Val(INVERTED_INDEX)[t]) = 2
          /\ Val(INVERTED_INDEX)[t][1].positions = <<0, 1>>
          /\ Val(CORPUS)[1].title_tokens = <<t>>
          /\ Val(CORPUS)[1].desc_tokens = <<t>>

(***************************************************************************)
(* C15: every record returned by search_in_corpus corresponds to one       *)
(* ranked (doc_id, score) pair, in ranked order: its pid is                *)
(* doc_id_map[doc_id], its title, description, selling_price, discount,    *)
(* average_rating and url are those of corpus[pid], and its score is the   *)
(* strategy's score for that doc_id.                                       *)
(***************************************************************************)
C15_Materialised ==
    (call.fn = "search_in_corpus" /\ ~BlankQuery(call.query)) =>
        LET ranked == Dispatch(Val(call.query), call.algo, Val(CORPUS),
                               Val(INVERTED_INDEX), Val(DOC_ID_MAP)).value
        IN  /\ Len(ret.value) <= Len(ranked)
            /\ \A i \in 1..Len(ret.value) :
                  LET pid == Val(DOC_ID_MAP)[ranked[i].doc_id]
                      d == CHOOSE doc \in Range(Val(CORPUS)) : doc.pid = pid
                  IN  /\ ret.value[i].pid = pid
                      /\ ret.value[i].title = d.title
                      /\ ret.value[i].description = d.description
                      /\ ret.value[i].selling_price = d.selling_price
                      /\ ret.value[i].discount = d.discount
                      /\ ret.value[i].average_rating = d.average_rating
                      /\ ret.value[i].url = d.url
                      /\ ret.value[i].score = ranked[i].score

\* two records whose order is not the order of the corpus: the second
\* product first, with the higher score
C15_Witness ==
    /\ call.fn = "search_in_corpus"
    /\ Len(ret.value) = 2
    /\ ret.value[1].pid = "P2" /\ ret.value[2].pid = "P1"
    /\ ret.value[1].score > ret.value[2].score
    /\ ret.value[1].title # ret.value[2].title

(***************************************************************************)
(* C16: no step of a search_in_corpus call or of a ranking strategy        *)
(* changes the inverted index, the corpus or doc_id_map (a looked-up term  *)
(* that is absent from the index gains no key), and under every            *)
(* interleaving of the threads' searches each finished search holds the    *)
(* result the same call gives when it runs alone on the corpus and on the  *)
(* index built from it.                                                    *)
(***************************************************************************)
AloneResult(t) ==
    LET built == create_inverted_index(Val(CORPUS))
    IN  IF frame[t].fn = "search_in_corpus"
        THEN search_in_corpus(frame[t].query, frame[t].algo, Val(CORPUS),
                              built.inverted_index, built.doc_id_map, frame[t].top_k)
        ELSE [invoked |-> frame[t].fn]
               @@ Rank(frame[t].fn, Val(frame[t].query), built.inverted_index,
                       Val(CORPUS), built.doc_id_map)

C16_ReadOnly ==
    /\ [](\A t \in Threads : pc[t] = "done" => frame[t].ret = AloneResult(t))
    /\ [][LOADED => /\ INVERTED_INDEX' = INVERTED_INDEX
                     /\ CORPUS' = CORPUS
                     /\ DOC_ID_MAP' = DOC_ID_MAP]_vars

\* one thread has finished a query with a term that is in no document, and
\* the index has no key for it, while the other thread is between its
\* ranking and the building of its records
C16_Witness ==
    /\ LOADED
    /\ pc[1] = "done" /\ pc[2] = "materialize"
    /\ frame[1].fn = "rank_query_tf_idf"
    /\ \E term \in Range(QueryTerms(Val(frame[1].query))) :
          term \notin DOMAIN Val(INVERTED_INDEX)
    /\ Len(frame[1].ret.value) = 2
    /\ Len(Val(frame[2].local)) = 2

(***************************************************************************)
(* C17: under every interleaving of initialize() calls and SearchEngine()  *)
(* constructions the corpus is loaded at most once and the index is built  *)
(* at most once, and a call that finds _LOADED true leaves _CORPUS,        *)
(* _INVERTED_INDEX, _DOC_ID_MAP and _PID_TO_DOCID unchanged.               *)
(***************************************************************************)
C17_LoadedOnce ==
    /\ [](loads <= 1 /\ builds <= 1)
    /\ [][(LOADED /\ \E t \in Threads : pc[t] = "init_check" /\ pc'[t] # "init_check")
            => UNCHANGED <<CORPUS, INVERTED_INDEX, DOC_ID_MAP, PID_TO_DOCID>>]_vars

(***************************************************************************)
(* C18: a document whose title_tokens or desc_tokens is missing or None is *)
(* treated as having an empty token sequence for that field: the index     *)
(* holds exactly the postings of the tokens the document has, no ranking   *)
(* strategy raises, and a document with no tokens at all is returned by no *)
(* strategy for a query of at least one term.                              *)
(***************************************************************************)
C18_MissingFieldsAsEmpty ==
    LOADED =>
        /\ \A t \in DOMAIN Val(INVERTED_INDEX) :
              \A i \in 1..Len(Val(INVERTED_INDEX)[t]) :
                 Val(INVERTED_INDEX)[t][i].positions
                    = Offsets(Stream(DocAt(Val(INVERTED_INDEX)[t][i].doc_id)), t)
        /\ \A d \in DocIds : \A p \in 1..Len(Stream(DocAt(d))) :
              \E i \in 1..Len(Get(Val(INVERTED_INDEX), Stream(DocAt(d))[p])) :
                 Val(INVERTED_INDEX)[Stream(DocAt(d))[p]][i].doc_id = d
        /\ CalledRank => ~ret.raised
        /\ (CalledRank /\ CallTerms # <<>>) =>
              \A d \in RankedDocs(ret.value) : Stream(DocAt(d)) # <<>>

(***************************************************************************)
(* C19: with an empty corpus the index and both identifier maps are empty, *)
(* and every ranking strategy and search_in_corpus return an empty list    *)
(* for every query without raising.                                        *)
(***************************************************************************)
C19_EmptyCorpus ==
    (LOADED /\ Val(CORPUS) = <<>>) =>
        /\ DOMAIN Val(INVERTED_INDEX) = {}
        /\ DOMAIN Val(DOC_ID_MAP) = {}
        /\ DOMAIN Val(PID_TO_DOCID) = {}
        /\ (CalledRank \/ call.fn = "search_in_corpus")
              => ~ret.raised /\ ret.value = <<>>

\* rank_query_bm25 has answered a two-term query on the empty corpus
C19_Witness ==
    /\ LOADED
    /\ Val(CORPUS) = <<>>
    /\ call.fn = "rank_query_bm25"
    /\ Len(CallTerms) = 2
    /\ ret = [invoked |-> "rank_query_bm25", raised |-> FALSE, value |-> <<>>]

(***************************************************************************)
(* C20: every score returned by a ranking strategy or by search_in_corpus  *)
(* is non-negative: for every indexed term df <= N, so the TF-IDF idf is   *)
(* >= 0; the BM25 idf is > 0 and every score BM25 returns for a query of   *)
(* at least one term is > 0.                                               *)
(***************************************************************************)
C20_NonNegativeScores ==
    /\ (CalledRank \/ call.fn = "search_in_corpus")
          => \A i \in 1..Len(ret.value) : ret.value[i].score >= 0
    /\ (call.fn = "rank_query_bm25" /\ CallTerms # <<>>)
          => \A i \in 1..Len(ret.value) : ret.value[i].score > 0
    /\ LOADED =>
          \A t \in DOMAIN Val(INVERTED_INDEX) :
             LET N == Len(Val(CORPUS))
                 df == Len(Val(INVERTED_INDEX)[t])
             IN  /\ df <= N
                 /\ IdfTfIdf(N, df) >= 0
                 /\ IdfBm25(N, df) > 0

\* a TF-IDF ranking with a positive score: the term is in one of the two
\* documents, so its idf is ln 2
C20_Witness ==
    /\ call.fn = "rank_query_tf_idf"
    /\ Len(Val(CORPUS)) = 2
    /\ Len(CallTerms) = 1
    /\ Len(ret.value) = 1
    /\ ret.value[1].score > 0

(***************************************************************************)
(* Vocabulary of the properties about the terms of a query.                *)
(***************************************************************************)
\* the number of times t occurs in the query terms
Count(terms, t) == Cardinality({i \in 1..Len(terms) : terms[i] = t})

\* the distinct terms of a query, in the order of their first occurrence
Distinct(terms) ==
    LET First(i) == \A j \in 1..(i - 1) : terms[j] # terms[i]
        firsts == SelectSeq([i \in 1..Len(terms) |-> i], First)
    IN  [k \in 1..Len(firsts) |-> terms[firsts[k]]]

\* the score the strategy fn gives document d for the one-term query t on
\* the loaded corpus: 0 when it does not return d
SingleScore(fn, t, d) ==
    ScoreOf(Rank(fn, t, Val(INVERTED_INDEX), Val(CORPUS), Val(DOC_ID_MAP)).value, d)

(***************************************************************************)
(* C21: in rank_query_tf_idf and rank_query_bm25 the score of every        *)
(* returned document is the sum, over the distinct query terms, of the     *)
(* number of times the term occurs in the query times the score the        *)
(* one-term query gives the document; and the documents returned are those *)
(* returned for the query with its duplicates removed.                     *)
(***************************************************************************)
C21_RepeatedTerms ==
    call.fn \in {"rank_query_tf_idf", "rank_query_bm25"} =>
        LET distinct == Distinct(CallTerms)
        IN  /\ \A i \in 1..Len(ret.value) :
                  ret.value[i].score =
                     SumSeq([k \in 1..Len(distinct) |->
                               Count(CallTerms, distinct[k])
                                  * SingleScore(call.fn, distinct[k],
                                                ret.value[i].doc_id)])
            /\ RankedDocs(ret.value) =
                  RankedDocs(Rank(call.fn, Join(distinct), Val(INVERTED_INDEX),
                                  Val(CORPUS), Val(DOC_ID_MAP)).value)

\* the query "r r" answered by TF-IDF: the document returned has twice the
\* positive score the query "r" gives it
C21_Witness ==
    /\ call.fn = "rank_query_tf_idf"
    /\ CallTerms = <<<<"r">>, <<"r">>>>
    /\ Len(ret.value) = 1
    /\ SingleScore(call.fn, <<"r">>, ret.value[1].doc_id) > 0
    /\ ret.value[1].score = 2 * SingleScore(call.fn, <<"r">>, ret.value[1].doc_id)

(***************************************************************************)
(* Vocabulary of the properties that compare two corpora.                  *)
(***************************************************************************)
\* the sequences made of tokens with one more t, at any place
Inserted(tokens, t) ==
    {SubSeq(tokens, 1, p) \o <<t>> \o SubSeq(tokens, p + 1, Len(tokens)) :
        p \in 0..Len(tokens)}

\* the corpora that differ from corpus by one more occurrence of t in the
\* title tokens or in the description tokens of the document d
WithOccurrence(corpus, d, t) ==
    {[corpus EXCEPT ![d + 1].title_tokens = tokens] :
        tokens \in Inserted(corpus[d + 1].title_tokens, t)}
      \cup {[corpus EXCEPT ![d + 1].desc_tokens = tokens] :
               tokens \in Inserted(corpus[d + 1].desc_tokens, t)}

\* the score rank_query_tf_idf gives document d for a query on a corpus and
\* the index built from it
TfIdfScoreOn(corpus, query, d) ==
    LET built == create_inverted_index(corpus)
    IN  ScoreOf(rank_query_tf_idf(query, built.inverted_index, corpus,
                                  built.doc_id_map).value, d)

(***************************************************************************)
(* C22: for the query of a rank_query_tf_idf call, one more occurrence of  *)
(* a query term in a document that already contains the term, all other    *)
(* documents unchanged, does not decrease the score of that document.      *)
(***************************************************************************)
C22_TfIdfMonotone ==
    call.fn = "rank_query_tf_idf" =>
        \A d \in DocIds : \A k \in 1..Len(CallTerms) :
            Contains(d, CallTerms[k]) =>
                \A more \in WithOccurrence(Val(CORPUS), d, CallTerms[k]) :
                    TfIdfScoreOn(more, Val(call.query), d) >= ScoreOf(ret.value, d)

\* a document returned with a positive score whose score grows strictly
\* with one more occurrence of the query term in its description
C22_Witness ==
    /\ call.fn = "rank_query_tf_idf"
    /\ Len(CallTerms) = 1
    /\ Len(ret.value) = 1
    /\ ret.value[1].score > 0
    /\ LET d == ret.value[1].doc_id
       IN  /\ DocAt(d).title_tokens = <<CallTerms[1]>>
           /\ \E more \in WithOccurrence(Val(CORPUS), d, CallTerms[1]) :
                 /\ more[d + 1].desc_tokens # DocAt(d).desc_tokens
                 /\ TfIdfScoreOn(more, Val(call.query), d) > ret.value[1].score

(***************************************************************************)
(* Vocabulary of the properties about weights, read off the corpus.        *)
(***************************************************************************)
\* the number of documents of the loaded corpus that contain t
DocFreq(t) == Cardinality({d \in DocIds : Contains(d, t)})

\* the number of occurrences of t in the document d
TermFreq(t, d) == Len(Offsets(Stream(DocAt(d)), t))

\* the document d contains every term of the query of the call
Qualifies(d) == \A k \in 1..Len(CallTerms) : Contains(d, CallTerms[k])

\* the vector of the query of the call and that of the document d: one
\* component per query term, ln(N / df) and tf * ln(N / df), 0 when df = 0
QueryVector ==
    [k \in 1..Len(CallTerms) |->
        IF DocFreq(CallTerms[k]) > 0
        THEN Ln(Len(Val(CORPUS)), DocFreq(CallTerms[k])) ELSE 0]

DocVector(d) ==
    [k \in 1..Len(CallTerms) |-> TermFreq(CallTerms[k], d) * QueryVector[k]]

\* a vector of norm zero: every component is 0
ZeroNorm(v) == \A k \in 1..Len(v) : v[k] = 0

(***************************************************************************)
(* C23: rank_query_tf_idf_cosine never raises on a loaded corpus, and a    *)
(* document that contains every query term while the query vector or its   *)
(* own vector has norm zero is returned, with the score 0.                 *)
(***************************************************************************)
C23_ZeroNormScoresZero ==
    call.fn = "rank_query_tf_idf_cosine" =>
        /\ ~ret.raised
        /\ \A d \in DocIds :
              (Qualifies(d) /\ (ZeroNorm(QueryVector) \/ ZeroNorm(DocVector(d))))
                 => /\ d \in RankedDocs(ret.value)
                    /\ ScoreOf(ret.value, d) = 0

\* a one-term query whose term is in both documents of the corpus: idf is
\* ln(2 / 2) = 0, both vectors have norm zero and both documents are
\* returned with the score 0
C23_Witness ==
    /\ call.fn = "rank_query_tf_idf_cosine"
    /\ Len(CallTerms) = 1
    /\ Len(Val(CORPUS)) = 2
    /\ DocFreq(CallTerms[1]) = 2
    /\ ZeroNorm(QueryVector)
    /\ ~ret.raised
    /\ Len(ret.value) = 2
    /\ ret.value[1].score = 0 /\ ret.value[2].score = 0

(***************************************************************************)
(* C24: the list a ranking strategy returns, and so the relative order of  *)
(* its documents of equal score, is fixed by the query and the index: the  *)
(* same call on the same index and doc_id_map returns the same list        *)
(* whatever the order in which sets hand out their elements.               *)
(***************************************************************************)
C24_TieOrderFixed ==
    [][(/\ call.fn \in RankFns
        /\ call' = call
        /\ INVERTED_INDEX' = INVERTED_INDEX
        /\ DOC_ID_MAP' = DOC_ID_MAP) => ret' = ret]_vars

(***************************************************************************)
(* C25: rank_query_bm25 on the loaded corpus and its index does not raise; *)
(* whenever the postings of a query term are scored (the term and all the  *)
(* terms before it occur in the corpus) the sum of the document lengths,   *)
(* and so avg_len, is > 0, every scored document has at least one token,   *)
(* and the denominator tf + k1 * (1 - b + b * L / avg_len) is > 0 for      *)
(* k1 = 1.5 and b = 0.75.                                                  *)
(***************************************************************************)
C25_Bm25NoZeroDivision ==
    call.fn = "rank_query_bm25" =>
        LET N == Len(Val(CORPUS))
            sumL == SumSeq([i \in 1..N |-> Len(Stream(Val(CORPUS)[i]))])
        IN  /\ ~ret.raised
            /\ \A k \in 1..Len(CallTerms) :
                  (\A j \in 1..k : ~Absent(CallTerms[j])) =>
                      /\ sumL > 0
                      /\ \A d \in DocIds :
                            Contains(d, CallTerms[k]) =>
                               LET tf == TermFreq(CallTerms[k], d)
                                   L == Len(Stream(DocAt(d)))
                               IN  /\ L >= 1
                                   /\ tf >= 1
                                   \* the denominator times K1Den * BDen * sumL
                                   /\ tf * K1Den * BDen * sumL
                                         + K1Num * ((BDen - BNum) * sumL
                                                      + BNum * L * N) > 0

\* a corpus of a document without tokens and a document with the query
\* term: the second document is scored and returned
C25_Witness ==
    /\ call.fn = "rank_query_bm25"
    /\ Len(Val(CORPUS)) = 2
    /\ Stream(DocAt(0)) = <<>>
    /\ Len(CallTerms) = 1
    /\ Contains(1, CallTerms[1])
    /\ ~ret.raised
    /\ RankedDocs(ret.value) = {1}
    /\ ret.value[1].score > 0

(***************************************************************************)
(* C26: whenever SearchEngine.search is about to call search_in_corpus,    *)
(* the index and the doc_id_map it passes are both the complete results of *)
(* one create_inverted_index call: the index and the doc_id_map built from *)
(* one loaded corpus.                                                      *)
(***************************************************************************)
C26_PublishedTogether ==
    \A t \in Threads :
        pc[t] = "es_call" =>
            \E file \in PublishFiles :
                LET built == create_inverted_index(load_corpus(file))
                IN  /\ Val(frame[t].local).inverted_index = Some(built.inverted_index)
                    /\ Val(frame[t].local).doc_id_map = Some(built.doc_id_map)

(***************************************************************************)
(* Vocabulary of the properties about the postings of one document.        *)
(***************************************************************************)
\* the positions the index records for the term t in the document d, over
\* all the postings of t for d
PositionsOf(t, d) ==
    LET postings == Val(INVERTED_INDEX)[t]
    IN  UNION {Range(postings[i].positions) :
                 i \in {j \in 1..Len(postings) : postings[j].doc_id = d}}

\* the sum over the terms of the lengths of the position lists of their
\* postings for the document d
RECURSIVE SumOfTf(_, _)
SumOfTf(terms, d) ==
    IF terms = {} THEN 0
    ELSE LET t == CHOOSE x \in terms : TRUE
             postings == Val(INVERTED_INDEX)[t]
         IN  SumSeq([i \in 1..Len(postings) |->
                       IF postings[i].doc_id = d THEN Len(postings[i].positions)
                       ELSE 0])
               + SumOfTf(terms \ {t}, d)

(***************************************************************************)
(* C27: in the index of the loaded corpus, for every document d the        *)
(* position lists of d's postings are pairwise disjoint across the terms,  *)
(* their union is exactly 0..L(d)-1 with L(d) = len(title_tokens) +        *)
(* len(desc_tokens), and the sum of tf(t, d) over all the terms is L(d),   *)
(* the document length that rank_query_tf_idf_cosine and rank_query_bm25   *)
(* compute.                                                                *)
(***************************************************************************)
C27_PositionsPartition ==
    LOADED =>
        \A d \in DocIds :
            LET terms == DOMAIN Val(INVERTED_INDEX)
                L == Len(DocAt(d).title_tokens) + Len(DocAt(d).desc_tokens)
            IN  /\ \A t1, t2 \in terms :
                      t1 # t2 => PositionsOf(t1, d) \cap PositionsOf(t2, d) = {}
                /\ UNION {PositionsOf(t, d) : t \in terms} = 0..(L - 1)
                /\ SumOfTf(terms, d) = L
                /\ ~DocLengthsRaises(Val(CORPUS), Val(DOC_ID_MAP))
                /\ DocLengths(Val(CORPUS), Val(DOC_ID_MAP))[d] = L

\* a second document with one term in its title and another in its
\* description, beside a first document that repeats a term: positions 0
\* and 1 of the second document belong to different terms
C27_Witness ==
    /\ LOADED
    /\ Len(Val(CORPUS)) = 2
    /\ DocAt(0).title_tokens = DocAt(0).desc_tokens /\ Len(DocAt(0).title_tokens) = 1
    /\ Len(DocAt(1).title_tokens) = 1 /\ Len(DocAt(1).desc_tokens) = 1
    /\ DocAt(1).title_tokens # DocAt(1).desc_tokens
    /\ PositionsOf(DocAt(1).title_tokens[1], 1) = {0}
    /\ PositionsOf(DocAt(1).desc_tokens[1], 1) = {1}
    /\ PositionsOf(DocAt(0).title_tokens[1], 0) = {0, 1}

(***************************************************************************)
(* C28: in the index of the loaded corpus every key has a non-empty        *)
(* posting list in strictly increasing order of doc_id, every posting has  *)
(* a non-empty positions list, and a term has no posting list, or an empty *)
(* one, exactly when it occurs in no document.                             *)
(***************************************************************************)
C28_PostingListsOrdered ==
    LOADED =>
        LET index == Val(INVERTED_INDEX)
        IN  /\ \A t \in DOMAIN index :
                  /\ Len(index[t]) >= 1
                  /\ \A i, j \in 1..Len(index[t]) :
                        i < j => index[t][i].doc_id < index[t][j].doc_id
                  /\ \A i \in 1..Len(index[t]) : Len(index[t][i].positions) >= 1
            /\ \A t \in DocTerms \cup DOMAIN index :
                  (t \notin DOMAIN index \/ index[t] = <<>>) <=> Absent(t)

\* one term in both documents, with the postings of document 0 and then
\* document 1, and the other term in no document
C28_Witness ==
    /\ LOADED
    /\ \E t \in DOMAIN Val(INVERTED_INDEX) :
          /\ Len(Val(INVERTED_INDEX)[t]) = 2
          /\ Val(INVERTED_INDEX)[t][1].doc_id = 0
          /\ Val(INVERTED_INDEX)[t][2].doc_id = 1
    /\ \E t \in DocTerms : t \notin DOMAIN Val(INVERTED_INDEX) /\ Absent(t)

(***************************************************************************)
(* C29: after any sequence of AnalyticsData operations, the session_id of  *)
(* every recorded query is a key of sessions, a query tracked with a None  *)
(* or unknown session_id being attributed to a session created for it, and *)
(* the queries_count of every session is the length of its list in         *)
(* queries_by_session.                                                     *)
(***************************************************************************)
C29_QueriesAttributed ==
    LET a == analytics_data
    IN  /\ \A q \in DOMAIN a.queries : a.queries[q].session_id \in DOMAIN a.sessions
        /\ \A s \in DOMAIN a.sessions :
              a.sessions[s].queries_count = Len(GetOr(a.queries_by_session, s, <<>>))
        /\ \A s \in DOMAIN a.queries_by_session :
              /\ s \in DOMAIN a.sessions
              /\ \A i \in 1..Len(a.queries_by_session[s]) :
                    /\ a.queries_by_session[s][i] \in DOMAIN a.queries
                    /\ a.queries[a.queries_by_session[s][i]].session_id = s

\* one query went to a session created for it, another to a session the
\* caller had started
C29_Witness ==
    LET a == analytics_data
    IN  \E q1, q2 \in DOMAIN a.queries :
           /\ a.sessions[a.queries[q1].session_id].user_agent = Some("Unknown (auto-created)")
           /\ a.sessions[a.queries[q2].session_id].user_agent = Some("Mozilla/5.0")
           /\ a.sessions[a.queries[q2].session_id].queries_count = 1

(***************************************************************************)
(* C30: after any sequence of track_click calls and /doc_details requests, *)
(* the per-document click counters agree: for every document d,            *)
(* fact_clicks[d] = doc_popularity[d] = len(clicks_by_doc[d]), a missing   *)
(* key counting as zero.                                                   *)
(***************************************************************************)
C30_CountersAgree ==
    LET a == analytics_data
    IN  \A d \in WebPids \cup DOMAIN a.fact_clicks \cup DOMAIN a.doc_popularity
                 \cup DOMAIN a.clicks_by_doc :
           /\ GetOr(a.fact_clicks, d, 0) = GetOr(a.doc_popularity, d, 0)
           /\ GetOr(a.doc_popularity, d, 0) = Len(GetOr(a.clicks_by_doc, d, <<>>))

====
